---- MODULE Spec2Model ----
(***************************************************************************)
(* Model of the narrative-state and variation engine of Rin-AI-Influencer: *)
(* the persisted variation-index store, the confidence-gated selection of  *)
(* image_gen.py, the weekly scene/arc memory of idea_generator.py together *)
(* with the reference-photo cache of photo_fetcher.py that shares its      *)
(* file, and the load-modify-save steps of overlapping scheduled callbacks.*)
(* The pipeline around it follows: the daily cadence and plan of           *)
(* core/scheduler.py and its long-running process, the post cycle of       *)
(* run_post_cycle.py, the draft store of core/publisher.py and the         *)
(* engagement cycle of engagement/engagement_engine.py.                    *)
(* Each subsystem has its own specification over the shared variables.     *)
(***************************************************************************)
EXTENDS Integers, Sequences, FiniteSets, TLC

VARIABLES
    \* ---- generators/variation_state.py: one VariationState object
    indexes,      \* self._indexes: key -> stored rotation index (partial)
    dirty,        \* self._dirty
    vsFile,       \* .runtime/image_variation_state.json: key -> index
    advCount,     \* history: advances of each key since it was fresh
    advLen,       \* history: the length of those advances (0 none, -1 mixed)
    lastGot,      \* history: the latest get_index call and what it returned
    saveLast,     \* history: whether an index was advanced or reset since the
                  \* latest save, and whether the latest call, a save, wrote
    \* ---- generators/image_gen.py: one confidence-gated selection axis
    selOptions,   \* the axis' ordered option list
    selKey,       \* the axis' key in the variation store
    selFixed,     \* the confidences the calls may be made with
    selLast,      \* history: the latest selection call and its result
    \* ---- generators/image_gen.py: the selection pass of generate_image
    poseLib,      \* personas/rin/poses.json: the spec of every pose key
    imgPasses,    \* selection passes made so far
    imgLast,      \* history: the latest pass and the store before it
    \* ---- generators/idea_generator.py and generators/photo_fetcher.py
    today,        \* the wall clock, in days
    memFile,      \* data/scene_memory.json, the file both modules use
    photoCache,   \* photo_fetcher._MEMORY_CACHE
    scenario,     \* what the text generator may answer, and the call budget
    ideaCalls,    \* generate_idea calls made so far
    sceneLast,    \* history: the latest generate_idea / snapshot call
    weekArcs,     \* history: the arc observed by the calls of this week
    weekBeat,     \* history: beat_index seen by this week's latest generate_idea
    weekLog,      \* history: this week's generate_idea results, newest first
    \* ---- core/scheduler.py: post callbacks on the scheduler's worker threads
    cbPc,         \* where each callback stands in run_post_cycle
    cbMemory,     \* each callback's memory and arc locals of generate_idea
    cbIndexes,    \* each callback's VariationState object in generate_image
    startBeat,    \* history: beat_index of this week when the callbacks start
    \* ---- core/scheduler.py: the inputs of the daily cadence decisions
    recentPosts,  \* load_recent_posts("rin", limit=6): the post records read
    arcState,     \* the arc and beat_index get_scene_memory_snapshot reads
    cadLast,      \* history: the latest cadence call and what it returned
    \* ---- core/scheduler.py: plan_day and the jobs of the day
    planPc,       \* where plan_day stands: idle, in the slot loop, planned
    postTimes,    \* post_times: one instant per chosen window
    desired,      \* desired: the number of engagement bursts asked for
    slots,        \* slots: the engagement instants accepted so far
    attempts,     \* attempts: the passes of the slot loop made so far
    postRun,      \* the run state of each post job
    slotRun,      \* the run state of each engagement job
    \* ---- core/scheduler.py: the process of start_dynamic_scheduler
    schedPc,      \* where the main thread stands
    cronJob,      \* whether the daily re-plan job is registered
    dueJobs,      \* date-triggered callbacks that are registered and not yet run
    absorbed,     \* history: the kinds of failure that were caught and logged
    replans,      \* history: daily re-plans that have fired
    \* ---- run_post_cycle.py: the post cycle
    orchCalls,    \* run_post_cycle calls made so far
    orchLast,     \* history: the latest call, its inputs and how it ended
    \* ---- core/publisher.py and models.py: the stored drafts
    drafts,       \* the PostDraft rows, by id
    postHistory,  \* the PostHistory rows
    pubLast,      \* history: the latest publish_to_instagram call
    \* ---- engagement/engagement_engine.py
    engHistory,   \* data/engagement_history.json
    engNow,       \* datetime.utcnow(), in hours
    engLast,      \* history: the latest run_engagement_cycle call
    candLast,     \* history: the latest _select_candidates call on its own
    \* ---- engagement/engagement_engine.py: one cycle, statement by statement
    engConfig,    \* Config.ENGAGEMENT_MIN_DELAY_SECONDS / _MAX_DELAY_SECONDS
    cycPc,        \* where run_engagement_cycle stands
    cycHistory,   \* history: the list the cycle loaded and appends to
    cycQueue,     \* the candidates the for loop has not reached yet
    cycItem,      \* the candidate in hand: comment, backend calls, result,
                  \* and the previous attempt's result and the delay after it
    engDone,      \* history: comment attempts that have returned so far
    \* ---- the three loaders of persisted state, on files of any content
    stateFiles,   \* what each state file holds: nothing, noise, an object, a list
    loadLast,     \* history: the latest load and how it ended
    \* ---- engagement/engagement_engine.py: discover_targets
    seedTargets,  \* engagement/targets.json: the seed list
    foundTargets, \* what the keyword searches of the call return
    targetsLast,  \* history: the latest discover_targets call and its result
    \* ---- core/scheduler.py: the scheduler process over calendar days
    schedNow,     \* datetime.now(), in minutes since midnight of day 0
    cronNext,     \* the next fire time of the daily re-plan job
    dayPlans,     \* history: per calendar day, the plan_day runs made on it
                  \* and the post jobs they added for it
    \* ---- generators/idea_generator.py and generators/captioner.py
    textLast      \* history: the latest generate_idea / generate_caption
                  \* call, its text-generator calls and how it ended

varsVS == <<indexes, dirty, vsFile, advCount, advLen, lastGot, saveLast>>
varsSel == <<selOptions, selKey, selFixed, selLast>>
varsImg == <<poseLib, imgPasses, imgLast>>
varsScene == <<today, memFile, photoCache, scenario, ideaCalls, sceneLast,
               weekArcs, weekBeat, weekLog>>

varsConc == <<cbPc, cbMemory, cbIndexes, startBeat>>

varsCad == <<recentPosts, arcState, cadLast>>

\* The variation, selection and scene-memory engine.
varsEngine == <<varsVS, varsSel, varsImg, varsScene, varsConc>>

\* The scheduling, orchestration, publishing and engagement pipeline.
varsPlan == <<planPc, postTimes, desired, slots, attempts, postRun, slotRun>>

varsSched == <<schedPc, cronJob, dueJobs, absorbed, replans>>
varsOrch == <<orchCalls, orchLast>>
varsPub == <<drafts, postHistory, pubLast>>
varsEngage == <<engHistory, engNow, engLast, candLast>>
varsCycle == <<engConfig, cycPc, cycHistory, cycQueue, cycItem, engDone>>
varsLoad == <<stateFiles, loadLast>>
varsTargets == <<seedTargets, foundTargets, targetsLast>>
varsDays == <<schedNow, cronNext, dayPlans>>
varsText == <<textLast>>

\* The pipeline behind the planner.
varsAfterPlan == <<varsSched, varsOrch, varsPub, varsEngage, varsCycle, varsLoad,
                   varsTargets,
                   varsDays, varsText>>

varsPipeline == <<varsCad, varsPlan, varsAfterPlan>>

vars == <<indexes, dirty, vsFile, advCount, advLen, lastGot, saveLast,
          selOptions, selKey, selFixed, selLast,
          poseLib, imgPasses, imgLast,
          today, memFile, photoCache, scenario, ideaCalls, sceneLast,
          weekArcs, weekBeat, weekLog,
          cbPc, cbMemory, cbIndexes, startBeat,
          recentPosts, arcState, cadLast,
          planPc, postTimes, desired, slots, attempts, postRun, slotRun,
          schedPc, cronJob, dueJobs, absorbed, replans,
          orchCalls, orchLast, drafts, postHistory, pubLast,
          engHistory, engNow, engLast, candLast,
          engConfig, cycPc, cycHistory, cycQueue, cycItem, engDone,
          stateFiles, loadLast, seedTargets, foundTargets, targetsLast,
          schedNow, cronNext, dayPlans, textLast>>

(***************************************************************************)
(* Bounds of the model.                                                    *)
(***************************************************************************)
MaxLen == 3          \* cycle lengths passed to get_index / advance: 0..MaxLen
MaxAdvances == 4     \* advances of one key in one behaviour
MaxOpts == 3         \* length of an arbitrary option list
MaxPasses == 3       \* selection passes of generate_image in one behaviour
MaxSubLen == 2       \* length of a pose's angle / motion option list
MaxDay == 7          \* the clock runs from StartDay to MaxDay
MaxArcs == 3         \* arcs of the catalog that are modelled
MaxIdeaCalls == 3    \* generate_idea calls when the recency lists are studied
MaxLocCalls == 2     \* generate_idea calls when location names are studied
MaxCallbacks == 2    \* post callbacks the scheduler has queued
MaxPosts == 2        \* post records load_recent_posts returns
MaxBeat == 9         \* beat_index values of the arc snapshot: 0..MaxBeat
MaxDesired == 3      \* engagement bursts asked for: 2..MaxDesired
MaxDue == 3          \* date-triggered jobs waiting in the job store
MaxReplans == 2      \* daily re-plans in one behaviour
MaxCycles == 2       \* run_post_cycle calls in one behaviour
MaxDrafts == 3       \* PostDraft rows in the store
MaxPublishes == 3    \* publish_to_instagram calls in one behaviour
MaxTargets == 3      \* targets discover_targets returns
MaxEngCycles == 2    \* run_engagement_cycle calls in one behaviour
MaxHour == 4         \* the engagement clock runs from 0 to MaxHour
MaxEntries == 2      \* entries of a history file given to _select_candidates
MaxSeeds == 2         \* seeds of targets.json given to discover_targets

(***************************************************************************)
(* generators/variation_state.py                                           *)
(***************************************************************************)
EmptyIndexes == [k \in {} |-> 0]

\* Keys of the variation store used when the store is exercised on its own.
VarKeys == {<<"pose", "street_casual">>, <<"outfit", "cozy_night">>}

\* self._indexes.get(key, 0)
StoredIndex(ix, key) == IF key \in DOMAIN ix THEN ix[key] ELSE 0

\* self._indexes[key] = value
SetIndex(ix, key, value) ==
    [k \in (DOMAIN ix) \cup {key} |-> IF k = key THEN value ELSE ix[k]]

\* del self._indexes[key]
DelIndex(ix, key) == [k \in (DOMAIN ix) \ {key} |-> ix[k]]

\* A faulty get_index that hands out the stored index as it is.
get_index_stored(ix, key, length) ==
    IF length <= 0 THEN 0 ELSE StoredIndex(ix, key)

\* VariationState.get_index
get_index(ix, key, length) ==
    IF length <= 0 THEN 0 ELSE StoredIndex(ix, key) % length

\* A faulty advance that steps the index by two.
advance_skip(ix, key, length) ==
    IF length <= 0 THEN ix
    ELSE SetIndex(ix, key, ((StoredIndex(ix, key) % length) + 2) % length)

\* VariationState.advance: the new index map
advance(ix, key, length) ==
    IF length <= 0 THEN ix
    ELSE SetIndex(ix, key, ((StoredIndex(ix, key) % length) + 1) % length)

\* VariationState.advance: the dirty flag afterwards
advance_dirty(flag, length) == IF length <= 0 THEN flag ELSE TRUE

\* A faulty save that writes whether the state is dirty or not.
save_always(file, ix, flag) == [file |-> ix, wrote |-> TRUE]

\* VariationState.save: the file afterwards, and whether it was written
save(file, ix, flag) ==
    IF ~flag THEN [file |-> file, wrote |-> FALSE]
    ELSE [file |-> ix, wrote |-> TRUE]

NoGet == [key |-> <<>>, len |-> 0, val |-> 0, fresh |-> FALSE]
NoSave == [touched |-> FALSE, outcome |-> "none"]

NoSelect == [called |-> FALSE, conf |-> 0, before |-> 0, pos |-> 0,
             advanced |-> FALSE]

\* The selection variables of a behaviour that makes no selection.
IdleSel ==
    /\ selOptions = <<>>
    /\ selKey = <<>>
    /\ selFixed = {}
    /\ selLast = NoSelect

NoPass == [called |-> FALSE, category |-> "", conf |-> 0, pose_key |-> "",
           pose_advanced |-> FALSE, before |-> [k \in {} |-> 0]]

\* The image-pass variables of a behaviour that generates no image.
IdleImg ==
    /\ poseLib = <<>>
    /\ imgPasses = 0
    /\ imgLast = NoPass

NoArc == "None"
NoWeek == -1

\* A JSON object with none of the scene-memory fields (an empty dict); the
\* other contents of the file, and the unset cache, are told apart by "kind".
EmptyDict ==
    [kind |-> "dict", week_start |-> NoWeek, arc |-> NoArc, beat_index |-> 0,
     recent_locations |-> <<>>, recent_moods |-> <<>>, scenes |-> FALSE]
NoFile == [EmptyDict EXCEPT !.kind = "absent"]
Corrupt == [EmptyDict EXCEPT !.kind = "unreadable"]
NoCache == [EmptyDict EXCEPT !.kind = "None"]
NoName == [words |-> <<>>, shout |-> FALSE, pad |-> FALSE]
NoCall == [op |-> "none", fresh |-> FALSE, arc |-> NoArc, previous |-> NoArc, selected |-> FALSE,
           rolled |-> FALSE, beat_index |-> 0, stored_beat |-> 0,
           week_start |-> NoWeek, mood |-> "", name |-> NoName]

\* The scene-memory variables of a behaviour that never touches the file.
IdleScene ==
    /\ today = 0
    /\ memFile = NoFile
    /\ photoCache = NoCache
    /\ scenario = [names |-> {}, locs |-> 0, budget |-> 0, client |-> FALSE]
    /\ ideaCalls = 0
    /\ sceneLast = NoCall
    /\ weekArcs = NoArc
    /\ weekBeat = -1
    /\ weekLog = <<>>

\* The callback variables of a behaviour in which no callback is scheduled.
IdleConc ==
    /\ cbPc = <<>>
    /\ cbMemory = <<>>
    /\ cbIndexes = <<>>
    /\ startBeat = 0

NoCadence == [op |-> "none", count |-> 0, bonus |-> FALSE, windows |-> <<>>]

\* The cadence variables of a behaviour that plans nothing.
IdleCad ==
    /\ recentPosts = <<>>
    /\ arcState = [arc |-> NoArc, beat_index |-> 0]
    /\ cadLast = NoCadence

\* The planner variables of a behaviour that plans no day.
IdlePlan ==
    /\ planPc = "idle"
    /\ postTimes = <<>>
    /\ desired = 0
    /\ slots = <<>>
    /\ attempts = 0
    /\ postRun = <<>>
    /\ slotRun = <<>>

\* The process variables of a behaviour in which no scheduler runs.
IdleSched ==
    /\ schedPc = "off"
    /\ cronJob = FALSE
    /\ dueJobs = 0
    /\ absorbed = {}
    /\ replans = 0

NoCycle ==
    [called |-> FALSE,
     in |-> [persona |-> "ok", text |-> "ok", photos |-> "ok", image |-> "ok",
             clip |-> FALSE, auto_post |-> FALSE, publish |-> "success",
             preview |-> "ok"],
     out |-> [ended |-> "none", stage |-> "none",
              record |-> [idea |-> "none", image |-> "none", caption |-> "none",
                          media_type |-> "none", posted |-> FALSE]]]

IdleOrch ==
    /\ orchCalls = 0
    /\ orchLast = NoCycle

NoPublish ==
    [called |-> FALSE, n |-> 0, draft_id |-> 0, picked |-> 0, reached |-> FALSE,
     outcome |-> "none", ended |-> "none"]

IdlePub ==
    /\ drafts = <<>>
    /\ postHistory = <<>>
    /\ pubLast = NoPublish

NoEngagement == [called |-> FALSE, n |-> 0, candidates |-> <<>>, before |-> 0]
NoCandidates == [called |-> FALSE, accounts |-> <<>>, offered |-> {}]

IdleEngage ==
    /\ engHistory = <<>>
    /\ engNow = 0
    /\ engLast = NoEngagement
    /\ candLast = NoCandidates

NoDelays == [min_delay |-> 0, max_delay |-> 0]
NoItem == [account |-> "", media |-> <<>>, comment |-> "", calls |-> 0,
           first |-> "none", result |-> "none", prev |-> "none", slept |-> 0]

\* The cycle variables of a behaviour that steps through no engagement cycle.
IdleCycle ==
    /\ engConfig = NoDelays
    /\ cycPc = "idle"
    /\ cycHistory = <<>>
    /\ cycQueue = <<>>
    /\ cycItem = NoItem
    /\ engDone = 0

Loaders == {"variation_state", "scene_memory", "engagement_history"}
NoLoad == [called |-> FALSE, loader |-> "", raised |-> FALSE, value |-> "none"]

\* The loader variables of a behaviour whose state files are all absent.
IdleLoad ==
    /\ stateFiles = [l \in Loaders |-> "absent"]
    /\ loadLast = NoLoad

NoDiscovery == [called |-> FALSE, result |-> <<>>]

\* The target variables of a behaviour that discovers no targets.
IdleTargets ==
    /\ seedTargets = <<>>
    /\ foundTargets = <<>>
    /\ targetsLast = NoDiscovery

NoFire == -1

\* The calendar variables of a behaviour that runs no scheduler process.
IdleDays ==
    /\ schedNow = 0
    /\ cronNext = NoFire
    /\ dayPlans = <<>>

NoPlace == [name |-> NoName, arc |-> NoArc, arc_mood |-> "", arc_beat |-> "",
            source |-> "none"]
NoIdea == [kind |-> "none", beat |-> "", near |-> NoName]
NoText ==
    [fn |-> "none", calls |-> 0, accepted |-> FALSE, ended |-> "none",
     idea |-> NoIdea, caption |-> "none", place |-> NoPlace,
     arc |-> NoArc, beat_index |-> 0]

\* The text variables of a behaviour that generates no idea and no caption.
IdleText == textLast = NoText

IdleAfterPlan ==
    /\ IdleSched
    /\ IdleOrch
    /\ IdlePub
    /\ IdleEngage
    /\ IdleCycle
    /\ IdleLoad
    /\ IdleTargets
    /\ IdleDays
    /\ IdleText

IdlePipeline ==
    /\ IdleCad
    /\ IdlePlan
    /\ IdleAfterPlan

\* The history variables of the variation store when it is not tracked.
IdleVSHistory ==
    /\ advCount = [k \in VarKeys |-> 0]
    /\ advLen = [k \in VarKeys |-> 0]
    /\ lastGot = NoGet
    /\ saveLast = NoSave

\* The engine variables of a behaviour that exercises the pipeline only.
IdleEngine ==
    /\ indexes = EmptyIndexes
    /\ dirty = FALSE
    /\ vsFile = EmptyIndexes
    /\ IdleVSHistory
    /\ IdleSel
    /\ IdleImg
    /\ IdleScene
    /\ IdleConc

InitVS ==
    /\ indexes = EmptyIndexes
    /\ dirty = FALSE
    /\ vsFile = EmptyIndexes
    /\ advCount = [k \in VarKeys |-> 0]
    /\ advLen = [k \in VarKeys |-> 0]
    /\ lastGot = NoGet
    /\ saveLast = NoSave
    /\ IdleSel
    /\ IdleImg
    /\ IdleScene
    /\ IdleConc
    /\ IdlePipeline

\* state.get_index(key, length): reads, records what the caller received.
GetIndexCall(key, length) ==
    /\ lastGot' = [key |-> key, len |-> length,
                   val |-> get_index(indexes, key, length), fresh |-> TRUE]
    /\ saveLast' = [saveLast EXCEPT !.outcome = "none"]
    /\ UNCHANGED <<indexes, dirty, vsFile, advCount, advLen>>
    /\ UNCHANGED <<varsSel, varsImg, varsScene>>
    /\ UNCHANGED <<varsConc, varsPipeline>>

\* state.advance(key, length)
AdvanceCall(key, length) ==
    /\ advCount[key] < MaxAdvances
    /\ indexes' = advance(indexes, key, length)
    /\ dirty' = advance_dirty(dirty, length)
    /\ saveLast' = [touched |-> saveLast.touched \/ length > 0, outcome |-> "none"]
    /\ advLen' = IF length <= 0 THEN advLen
                 ELSE [advLen EXCEPT ![key] =
                         IF @ = 0 \/ @ = length THEN length ELSE -1]
    /\ advCount' = IF length <= 0 THEN advCount
                   ELSE [advCount EXCEPT ![key] =
                           IF advLen'[key] = -1 THEN 0 ELSE @ + 1]
    /\ lastGot' = IF length > 0 /\ lastGot.key = key
                  THEN NoGet ELSE lastGot
    /\ UNCHANGED vsFile
    /\ UNCHANGED <<varsSel, varsImg, varsScene>>
    /\ UNCHANGED <<varsConc, varsPipeline>>

\* state.reset(key)
ResetCall(key) ==
    /\ indexes' = IF key \in DOMAIN indexes THEN DelIndex(indexes, key) ELSE indexes
    /\ dirty' = (IF key \in DOMAIN indexes THEN TRUE ELSE dirty)
    /\ saveLast' = [touched |-> saveLast.touched \/ key \in DOMAIN indexes,
                    outcome |-> "none"]
    /\ advCount' = [advCount EXCEPT ![key] = 0]
    /\ advLen' = [advLen EXCEPT ![key] = 0]
    /\ lastGot' = IF lastGot.key = key
                  THEN NoGet ELSE lastGot
    /\ UNCHANGED vsFile
    /\ UNCHANGED <<varsSel, varsImg, varsScene>>
    /\ UNCHANGED <<varsConc, varsPipeline>>

\* state.save()
SaveCall ==
    /\ vsFile' = save(vsFile, indexes, dirty).file
    /\ dirty' = FALSE
    /\ saveLast' = [touched |-> FALSE,
                    outcome |-> IF save(vsFile, indexes, dirty).wrote THEN "wrote"
                                ELSE "skipped"]
    /\ UNCHANGED <<indexes, advCount, advLen, lastGot>>
    /\ UNCHANGED <<varsSel, varsImg, varsScene>>
    /\ UNCHANGED <<varsConc, varsPipeline>>

NextVS ==
    \/ \E key \in VarKeys, length \in -1..MaxLen : GetIndexCall(key, length)
    \/ \E key \in VarKeys, length \in -1..MaxLen : AdvanceCall(key, length)
    \/ \E key \in VarKeys : ResetCall(key)
    \/ SaveCall

SpecVar == InitVS /\ [][NextVS]_vars

\* C1: from a fresh state, after n advances of a key with cycle length L > 0
\* get_index(key, L) is n mod L, and a get_index result stays the value any
\* further get_index call returns until the key is advanced or reset.
C1_Rotation ==
    /\ \A key \in VarKeys :
          advLen[key] > 0 =>
              get_index(indexes, key, advLen[key]) = advCount[key] % advLen[key]
    /\ lastGot.fresh =>
          /\ get_index(indexes, lastGot.key, lastGot.len) = lastGot.val
          /\ (lastGot.len > 0 /\ advLen[lastGot.key] = lastGot.len) =>
                 lastGot.val = advCount[lastGot.key] % lastGot.len

\* C1 witness: a key advanced past a full cycle (wrapped to a smaller index)
\* and then read back.
C1_Witness ==
    /\ lastGot.fresh /\ lastGot.len = 3
    /\ advLen[lastGot.key] = 3 /\ advCount[lastGot.key] = 4
    /\ lastGot.val = 1

\* C30: get_index changes nothing and returns a position of the list it is
\* asked about, 0 .. length - 1, also for a key that was advanced under
\* another length; for length <= 0 it returns 0, and advance then leaves the
\* indexes and the dirty flag as they were.
C30_GetIndexPure ==
    /\ [](/\ lastGot.len > 0 => lastGot.val \in 0..(lastGot.len - 1)
          /\ lastGot.len <= 0 => lastGot.val = 0
          /\ \A key \in VarKeys :
                /\ \A length \in 1..MaxLen :
                      get_index(indexes, key, length) \in 0..(length - 1)
                /\ \A length \in -1..0 :
                      /\ get_index(indexes, key, length) = 0
                      /\ advance(indexes, key, length) = indexes
                      /\ advance_dirty(dirty, length) = dirty)
    /\ [][(lastGot'.fresh /\ lastGot' # lastGot) =>
             (indexes' = indexes /\ dirty' = dirty /\ vsFile' = vsFile)]_vars

\* C30 witness: a key advanced twice under length 3, stored index 2, is read
\* with length 2 and the caller receives 0.
C30_Witness ==
    /\ lastGot.fresh /\ lastGot.len = 2 /\ lastGot.val = 0
    /\ advLen[lastGot.key] = 3
    /\ StoredIndex(indexes, lastGot.key) = 2

(***************************************************************************)
(* generators/image_gen.py: option catalogs and confidence-gated selection *)
(* Confidences and min_confidence thresholds are in hundredths; every sum  *)
(* _background_confidence forms compares with every catalog threshold as   *)
(* the hundredths do (0.15 + 0.15 + 0.25 >= 0.55 holds in binary floats).  *)
(***************************************************************************)
Categories ==
    {"selfie_morning", "selfie_gym", "selfie_mirror", "street_casual", "cozy_night"}

DEFAULT_CATEGORY == "selfie_morning"

Pose(key, minc) == [pose_key |-> key, min_confidence |-> minc]
Env(minc) == [pose_key |-> "", min_confidence |-> minc]

CATEGORY_POSES ==
    [c \in Categories |->
        CASE c = "selfie_morning" ->
                 <<Pose("selfie_arm", 0), Pose("selfie_coffee", 15)>>
          [] c = "selfie_gym" ->
                 <<Pose("selfie_gym", 0), Pose("selfie_mirror", 20)>>
          [] c = "selfie_mirror" ->
                 <<Pose("selfie_mirror", 0), Pose("selfie_arm", 10)>>
          [] c = "street_casual" ->
                 <<Pose("street_wall_lean", 20), Pose("street_walk_close", 55),
                   Pose("selfie_arm", 0)>>
          [] c = "cozy_night" ->
                 <<Pose("selfie_bed", 0), Pose("selfie_coffee", 0)>>]

CATEGORY_ENVIRONMENTS ==
    [c \in Categories |->
        CASE c = "selfie_morning" -> <<Env(0), Env(35)>>
          [] c = "selfie_gym" -> <<Env(0), Env(45)>>
          [] c = "selfie_mirror" -> <<Env(0), Env(35)>>
          [] c = "street_casual" -> <<Env(0), Env(55)>>
          [] c = "cozy_night" -> <<Env(0), Env(45)>>]

\* The values _background_confidence returns: base 15, +15 with keywords,
\* +25 for each of at most three reference images, capped at 100.
background_confidence(nRefs, hasKeywords) ==
    LET withKw == 15 + (IF hasKeywords THEN 15 ELSE 0)
        refs == IF nRefs < 3 THEN nRefs ELSE 3
        total == withKw + refs * 25
    IN  IF total < 100 THEN total ELSE 100

\* Confidences given to a selection: those of _background_confidence, and 0.
Confidences == {0} \cup {background_confidence(n, k) : n \in 0..3, k \in BOOLEAN}

\* Thresholds of the arbitrary option lists.
Thresholds == {0, 20, 55}

\* The least position of an option the confidence meets (the scan of the
\* for loop), 0 when there is none.
first_candidate(options, confidence) ==
    LET ok == {i \in 1..Len(options) : confidence >= options[i].min_confidence}
    IN  IF ok = {} THEN 0 ELSE CHOOSE i \in ok : \A j \in ok : i <= j

\* A faulty selection that advances the index on a gated miss too.
select_always_advance(ix, key, options, confidence) ==
    IF options = <<>> THEN [pos |-> -1, advanced |-> FALSE, ix |-> ix]
    ELSE LET idx == get_index(ix, key, Len(options))
             hit == first_candidate(options, confidence)
         IN  IF confidence >= options[idx + 1].min_confidence
             THEN [pos |-> idx, advanced |-> TRUE,
                   ix |-> advance(ix, key, Len(options))]
             ELSE [pos |-> (IF hit > 0 THEN hit - 1 ELSE 0), advanced |-> FALSE,
                   ix |-> advance(ix, key, Len(options))]

\* A faulty selection that falls back to the first option without scanning.
select_first_on_miss(ix, key, options, confidence) ==
    IF options = <<>> THEN [pos |-> -1, advanced |-> FALSE, ix |-> ix]
    ELSE LET idx == get_index(ix, key, Len(options))
         IN  IF confidence >= options[idx + 1].min_confidence
             THEN [pos |-> idx, advanced |-> TRUE,
                   ix |-> advance(ix, key, Len(options))]
             ELSE [pos |-> 0, advanced |-> FALSE, ix |-> ix]

\* _select_with_confidence: the position (from 0) of the option returned
\* (-1 for the empty record), the advanced flag, and the store afterwards.
select_with_confidence(ix, key, options, confidence) ==
    IF options = <<>> THEN [pos |-> -1, advanced |-> FALSE, ix |-> ix]
    ELSE LET idx == get_index(ix, key, Len(options))
             hit == first_candidate(options, confidence)
         IN  IF confidence >= options[idx + 1].min_confidence
             THEN [pos |-> idx, advanced |-> TRUE,
                   ix |-> advance(ix, key, Len(options))]
             ELSE IF hit > 0
                  THEN [pos |-> hit - 1, advanced |-> FALSE, ix |-> ix]
                  ELSE [pos |-> 0, advanced |-> FALSE, ix |-> ix]

\* Option lists of length 0..MaxOpts over Thresholds.
OptionLists ==
    UNION {[1..n -> {Env(t) : t \in Thresholds}] : n \in 0..MaxOpts}

\* The pose and environment axes of the catalogs.
CatalogAxes ==
    {<<kind, c>> : kind \in {"pose", "environment"}, c \in Categories}

AxisOptions(axis) ==
    IF axis[1] = "pose" THEN CATEGORY_POSES[axis[2]]
    ELSE CATEGORY_ENVIRONMENTS[axis[2]]

\* An index left in the store by earlier passes: none, or any stored value.
StoredStates(key, n) ==
    {EmptyIndexes} \cup {SetIndex(EmptyIndexes, key, i) : i \in 0..(n - 1)}

\* A selection on an arbitrary option list; the confidence varies per call.
InitSelect ==
    /\ selOptions \in OptionLists
    /\ selKey = <<"pose", "street_casual">>
    /\ selFixed = Confidences
    /\ selLast = NoSelect
    /\ indexes \in StoredStates(selKey, Len(selOptions))
    /\ dirty = FALSE
    /\ vsFile = indexes
    /\ IdleVSHistory
    /\ IdleImg
    /\ IdleScene
    /\ IdleConc
    /\ IdlePipeline

\* A selection on a catalog axis under one fixed confidence.
InitAxis ==
    /\ \E axis \in CatalogAxes :
          /\ selKey = axis
          /\ selOptions = AxisOptions(axis)
    /\ \E confidence \in Confidences : selFixed = {confidence}
    /\ selLast = NoSelect
    /\ indexes \in StoredStates(selKey, Len(selOptions))
    /\ dirty = FALSE
    /\ vsFile = indexes
    /\ IdleVSHistory
    /\ IdleImg
    /\ IdleScene
    /\ IdleConc
    /\ IdlePipeline

\* One call _select_with_confidence(state, key, options, confidence).
SelectCall(confidence) ==
    /\ confidence \in selFixed
    /\ LET r == select_with_confidence(indexes, selKey, selOptions, confidence)
       IN  /\ indexes' = r.ix
           /\ dirty' = (dirty \/ r.advanced)
           /\ selLast' = [called |-> TRUE, conf |-> confidence,
                          before |-> get_index(indexes, selKey, Len(selOptions)),
                          pos |-> r.pos, advanced |-> r.advanced]
           /\ saveLast' = [touched |-> saveLast.touched \/ r.advanced,
                           outcome |-> "none"]
    /\ UNCHANGED <<vsFile, advCount, advLen, lastGot>>
    /\ UNCHANGED <<selOptions, selKey, selFixed>>
    /\ UNCHANGED <<varsImg, varsScene>>
    /\ UNCHANGED <<varsConc, varsPipeline>>

NextSelect ==
    \/ \E confidence \in Confidences : SelectCall(confidence)
    \/ SaveCall

SpecSelect == InitSelect /\ [][NextSelect]_vars

SpecAxis == InitAxis /\ [][NextSelect]_vars

\* Repeated selections on one catalog axis under one fixed confidence: the
\* callers keep selecting.
SelectsOn == \E confidence \in Confidences : SelectCall(confidence)
SpecAxisFair == InitAxis /\ [][NextSelect]_vars /\ WF_vars(SelectsOn)

\* Whether the option at a position (from 1) passes the fixed confidence.
Eligible(i) ==
    /\ i <= Len(selOptions)
    /\ \A confidence \in selFixed : selOptions[i].min_confidence <= confidence

\* The longest option list of the pose and environment catalogs.
LongestAxis == 3

\* C37: under a fixed confidence, every option of the axis whose
\* min_confidence the confidence meets is returned again and again.
C37_NoStarvation ==
    \A i \in 1..LongestAxis :
        []<>(Eligible(i) => (selLast.called /\ selLast.pos = i - 1))

\* Selections, resets of the selected key and saves, from a saved state.
NextSave ==
    \/ NextSelect
    \/ ResetCall(selKey)

SpecSave == InitSelect /\ [][NextSave]_vars

C29_WitnessSkipped ==
    /\ selLast.called /\ ~selLast.advanced
    /\ saveLast.outcome = "skipped"

SelIndexNow == get_index(indexes, selKey, Len(selOptions))

\* C5: the option at the rotation index is returned and the index advances
\* by one when its threshold is met; otherwise the first option in list order
\* whose threshold is met is returned, or the first option when none is, and
\* the index stays where it was.
C5_ConfidenceGated ==
    (selLast.called /\ selOptions # <<>>) =>
        LET n == Len(selOptions)
            met == {i \in 0..(n - 1) :
                       selOptions[i + 1].min_confidence <= selLast.conf}
        IN  IF selLast.before \in met
            THEN /\ selLast.pos = selLast.before
                 /\ selLast.advanced
                 /\ SelIndexNow = (selLast.before + 1) % n
            ELSE /\ ~selLast.advanced
                 /\ SelIndexNow = selLast.before
                 /\ IF met # {}
                    THEN /\ selLast.pos \in met
                         /\ \A i \in met : selLast.pos <= i
                    ELSE selLast.pos = 0

\* C5 witness: confidence 0, options [A(min 0), B(min 55)], index at B:
\* A is returned and the index still points at B.
C5_Witness ==
    /\ selLast.called /\ selLast.conf = 0
    /\ selOptions = <<Env(0), Env(55)>>
    /\ selLast.before = 1 /\ selLast.pos = 0 /\ SelIndexNow = 1

\* C5 witness of the unconditional fallback: no option meets the confidence
\* and the first one is returned.
C5_WitnessNoneMet ==
    /\ selLast.called /\ selLast.conf = 0
    /\ selOptions = <<Env(20), Env(55)>>
    /\ selLast.pos = 0 /\ ~selLast.advanced

\* C6: at confidence 0 a selection on a catalog axis never moves the index
\* off an option whose min_confidence is above 0, and returns an option whose
\* min_confidence is 0.
C6_ZeroConfidence ==
    (selLast.called /\ selLast.conf = 0) =>
        /\ selOptions[selLast.before + 1].min_confidence > 0 =>
               SelIndexNow = selLast.before
        /\ selLast.pos >= 0
        /\ selOptions[selLast.pos + 1].min_confidence = 0

\* C6 witness: the street_casual pose axis with the index at the 0.55 option:
\* the third option (min 0) is returned and the index stays.
C6_Witness ==
    /\ selKey = <<"pose", "street_casual">> /\ selFixed = {0}
    /\ selLast.called /\ selLast.before = 1 /\ selLast.pos = 2
    /\ SelIndexNow = 1

(***************************************************************************)
(* generators/image_gen.py and generators/camera_engine.py: the selection  *)
(* pass of generate_image (lines 377-404).  The reference-photo fetch that *)
(* precedes it touches only the scene-memory file and is the PhotoFetch    *)
(* action of the scene-memory specification.                               *)
(***************************************************************************)
OutfitCount == 3         \* every CATEGORY_OUTFITS list has three outfits
ImperfectionCount == 5   \* len(IMPERFECTION_SEQUENCE)
DefaultClipCount == 3    \* the default clip_motion list of camera_engine

\* The pose keys the catalog names.
PoseKeys ==
    UNION {{CATEGORY_POSES[c][i].pose_key : i \in 1..Len(CATEGORY_POSES[c])} :
              c \in Categories}

SubAxes == {"angle", "expression", "motion", "clip"}

\* A pose spec of the library: whether the key is in the library and the
\* lengths of its option lists (clip: of pose.get("clip_motion", default));
\* the angle and motion lists are empty or hold MaxSubLen options.
AbsentPose == [present |-> FALSE, angle |-> 0, expression |-> 0, motion |-> 0,
               clip |-> 0]

PoseShapes ==
    {AbsentPose} \cup
    {[present |-> TRUE, angle |-> a, expression |-> MaxSubLen, motion |-> m,
      clip |-> DefaultClipCount] : a \in {0, MaxSubLen}, m \in {0, MaxSubLen}}

\* _cycle_text: the store after the call (the text returned is options[idx]).
cycle_text(ix, key, count) ==
    IF count = 0 THEN ix ELSE advance(ix, key, count)

\* A faulty _select_option that ignores its advance argument.
select_option_always(ix, key, count, adv) ==
    IF count = 0 THEN ix ELSE advance(ix, key, count)

\* camera_engine._select_option with a state: the store after the call.
select_option(ix, key, count, adv) ==
    IF count = 0 THEN ix
    ELSE IF adv THEN advance(ix, key, count) ELSE ix

CameraKey(pose_key, sub) == <<"camera", pose_key, sub>>

\* get_camera_instructions: the store after the four sub-axis selections.
get_camera_instructions(ix, spec, pose_key, adv) ==
    IF ~spec.present THEN ix
    ELSE LET a == select_option(ix, CameraKey(pose_key, "angle"), spec.angle, adv)
             e == select_option(a, CameraKey(pose_key, "expression"),
                                spec.expression, adv)
             m == select_option(e, CameraKey(pose_key, "motion"), spec.motion, adv)
         IN  select_option(m, CameraKey(pose_key, "clip"), spec.clip, adv)

\* The selection pass of generate_image for a category and a confidence:
\* the store that state.save() persists, and what was selected.
selection_pass(file, lib, category, confidence) ==
    LET poses == CATEGORY_POSES[category]
        p == select_with_confidence(file, <<"pose", category>>, poses, confidence)
        e == select_with_confidence(p.ix, <<"environment", category>>,
                                    CATEGORY_ENVIRONMENTS[category], confidence)
        i == cycle_text(e.ix, <<"imperfection">>, ImperfectionCount)
        o == cycle_text(i, <<"outfit", category>>, OutfitCount)
        pose_key == poses[p.pos + 1].pose_key
        c == get_camera_instructions(o, lib[pose_key], pose_key, p.advanced)
    IN  [ix |-> c, pose_key |-> pose_key, pose_advanced |-> p.advanced]

InitImage ==
    /\ \E shape \in PoseShapes : poseLib = [k \in PoseKeys |-> shape]
    /\ imgPasses = 0
    /\ imgLast = NoPass
    /\ indexes = EmptyIndexes
    /\ dirty = FALSE
    /\ vsFile = EmptyIndexes
    /\ IdleVSHistory
    /\ IdleSel
    /\ IdleScene
    /\ IdleConc
    /\ IdlePipeline

\* generate_image up to state.save(): VariationState() loads the file, the
\* pass selects, save() writes the file (the pass always advances an index).
GenerateImagePass(category, nRefs, hasKeywords) ==
    /\ imgPasses < MaxPasses
    /\ LET confidence == background_confidence(nRefs, hasKeywords)
           r == selection_pass(vsFile, poseLib, category, confidence)
       IN  /\ vsFile' = r.ix
           /\ imgLast' = [called |-> TRUE, category |-> category,
                          conf |-> confidence, pose_key |-> r.pose_key,
                          pose_advanced |-> r.pose_advanced, before |-> vsFile]
    /\ imgPasses' = imgPasses + 1
    /\ UNCHANGED <<indexes, dirty, advCount, advLen, lastGot, saveLast, poseLib>>
    /\ UNCHANGED <<varsSel, varsScene>>
    /\ UNCHANGED <<varsConc, varsPipeline>>

NextImage ==
    \E category \in Categories, nRefs \in 0..3, hasKeywords \in BOOLEAN :
        GenerateImagePass(category, nRefs, hasKeywords)

SpecImage == InitImage /\ [][NextImage]_vars

\* Whether the latest pass moved a key's index one step round a cycle of n.
SteppedOne(key, n) ==
    get_index(vsFile, key, n) = (get_index(imgLast.before, key, n) + 1) % n

Unmoved(key, n) ==
    get_index(vsFile, key, n) = get_index(imgLast.before, key, n)

SubLen(pose_key, sub) ==
    CASE sub = "angle" -> poseLib[pose_key].angle
      [] sub = "expression" -> poseLib[pose_key].expression
      [] sub = "motion" -> poseLib[pose_key].motion
      [] sub = "clip" -> poseLib[pose_key].clip

\* C7 as claimed: every pass advances by one the outfit index of the
\* category, the imperfection index and each camera sub-axis index (with a
\* non-empty option list) of the selected pose, whether or not the pose axis
\* advanced.
C7_AlwaysAdvances ==
    imgLast.called =>
        /\ SteppedOne(<<"outfit", imgLast.category>>, OutfitCount)
        /\ SteppedOne(<<"imperfection">>, ImperfectionCount)
        /\ \A sub \in SubAxes :
              (poseLib[imgLast.pose_key].present
                  /\ SubLen(imgLast.pose_key, sub) > 0) =>
                  SteppedOne(CameraKey(imgLast.pose_key, sub),
                             SubLen(imgLast.pose_key, sub))

\* C7 as amended: the outfit and imperfection indices advance by one on
\* every pass; the camera sub-axis indices of the selected pose advance by
\* one when the pose axis advanced, and stay where they were when it did not.
C7_AdvancesWithPose ==
    imgLast.called =>
        /\ SteppedOne(<<"outfit", imgLast.category>>, OutfitCount)
        /\ SteppedOne(<<"imperfection">>, ImperfectionCount)
        /\ \A sub \in SubAxes :
              (poseLib[imgLast.pose_key].present
                  /\ SubLen(imgLast.pose_key, sub) > 0) =>
                  IF imgLast.pose_advanced
                  THEN SteppedOne(CameraKey(imgLast.pose_key, sub),
                                  SubLen(imgLast.pose_key, sub))
                  ELSE Unmoved(CameraKey(imgLast.pose_key, sub),
                               SubLen(imgLast.pose_key, sub))

\* C7 witness: a street_casual pass at confidence 0.15 falls back to the
\* selfie_arm pose without advancing the pose axis, after an earlier pass
\* that had advanced that pose's camera indices.
C7_Witness ==
    /\ imgLast.called /\ imgLast.category = "street_casual"
    /\ imgLast.conf = 15 /\ ~imgLast.pose_advanced
    /\ imgLast.pose_key = "selfie_arm"
    /\ poseLib["selfie_arm"].present /\ poseLib["selfie_arm"].angle = 2
    /\ get_index(imgLast.before, CameraKey("selfie_arm", "angle"), 2) = 1
    /\ get_index(vsFile, CameraKey("selfie_arm", "angle"), 2) = 1
    /\ get_index(vsFile, <<"outfit", "street_casual">>, OutfitCount) = 1

(***************************************************************************)
(* generators/idea_generator.py: the weekly scene/arc memory.              *)
(* A location name is its lower-cased words, whether it has upper-case     *)
(* letters, and whether it has surplus whitespace; _normalized keeps the   *)
(* words only.  Day 0 is a Monday.                                         *)
(***************************************************************************)
DaysPerWeek == 7
RecencyLimit == 6

\* The names of WEEKLY_ARCS in catalog order; the first MaxArcs are modelled.
WEEKLY_ARCS ==
    <<"Cafe Drift Week", "Metro Echoes", "Night Walks by the River",
      "Study Chinese Week", "Mall Weekends">>

ArcNames ==
    {WEEKLY_ARCS[i] : i \in 1..(IF MaxArcs < Len(WEEKLY_ARCS) THEN MaxArcs
                                ELSE Len(WEEKLY_ARCS))}

ArcMoods(arc) ==
    CASE arc = "Cafe Drift Week" -> <<"sleepy", "focused", "reflective", "hopeful">>
      [] arc = "Metro Echoes" -> <<"observant", "introspective", "restless">>
      [] arc = "Night Walks by the River" -> <<"melancholy", "curious", "calm">>
      [] arc = "Study Chinese Week" -> <<"hopeful", "focused", "tired", "determined">>
      [] arc = "Mall Weekends" -> <<"playful", "restless", "cosy">>

Name(words, shout, pad) == [words |-> words, shout |-> shout, pad |-> pad]
Loc(words) == Name(words, TRUE, FALSE)

ArcLocations(arc) ==
    CASE arc = "Cafe Drift Week" ->
             <<Loc(<<"anfu", "road", "cafes">>), Loc(<<"ferguson", "lane", "courtyard">>),
               Loc(<<"tianzifang", "back", "lanes">>), Loc(<<"xintiandi", "side", "streets">>),
               Loc(<<"wukang", "road", "windows">>)>>
      [] arc = "Metro Echoes" ->
             <<Loc(<<"jing'an", "temple", "metro", "station">>),
               Loc(<<"xujiahui", "exit", "crowd">>), Loc(<<"lujiazui", "platform", "edge">>),
               Loc(<<"zhongshan", "park", "transfer">>),
               Loc(<<"west", "nanjing", "road", "escalators">>)>>
      [] arc = "Night Walks by the River" ->
             <<Loc(<<"north", "bund", "boardwalk">>), Loc(<<"west", "bund", "riverside", "path">>),
               Loc(<<"sihang", "warehouse", "riverfront">>), Loc(<<"cool", "docks">>),
               Loc(<<"fuxing", "park", "after", "dark">>)>>
      [] arc = "Study Chinese Week" ->
             <<Loc(<<"fuxing", "park", "benches">>), Loc(<<"sinan", "mansions", "library", "cafe">>),
               Loc(<<"k11", "study", "corner">>), Loc(<<"taikoo", "li", "community", "tables">>),
               Loc(<<"apartment", "desk", "near", "jing'an">>)>>
      [] arc = "Mall Weekends" ->
             <<Loc(<<"taikoo", "li", "qiantan">>), Loc(<<"mixc", "mall">>),
               Loc(<<"tx", "huaihai">>), Loc(<<"k11", "art", "mall">>),
               Loc(<<"jing'an", "kerry", "center">>)>>

\* _normalized: lower-case, strip, collapse whitespace.
normalized(name) == Name(name.words, FALSE, FALSE)

BANNED_LOCATIONS == {Name(<<"yu", "garden">>, FALSE, FALSE), Name(<<"yuyuan">>, FALSE, FALSE)}

\* Location names a text generator may answer with.
CleanName == Name(<<"wukang", "mansion">>, TRUE, FALSE)
LLMNames ==
    {CleanName,
     Name(<<"yu", "garden">>, TRUE, TRUE),       \* "  YU   Garden "
     Name(<<"yuyuan">>, FALSE, FALSE),           \* "yuyuan"
     Name(<<"yuyuan", "garden">>, TRUE, FALSE)}  \* "Yuyuan Garden"

\* _start_of_week: the Monday of the day's week, as stored in week_start.
start_of_week(day) == day - (day % DaysPerWeek)

\* The record _load_scene_memory and _ensure_arc build for a new week.
fresh_memory(week_start) ==
    [kind |-> "dict", week_start |-> week_start, arc |-> NoArc, beat_index |-> 0,
     recent_locations |-> <<>>, recent_moods |-> <<>>, scenes |-> FALSE]

\* _load_scene_memory
load_scene_memory(file, day) ==
    IF file \in {NoFile, Corrupt} THEN fresh_memory(start_of_week(day)) ELSE file

\* _choose_new_arc: the pool random.choice draws from.
choose_new_arc(previous) ==
    LET pool == {a \in ArcNames : a # previous}
    IN  IF pool = {} THEN ArcNames ELSE pool

\* The memory _ensure_arc works on after its week check.
week_checked(memory, day) ==
    IF memory.week_start # start_of_week(day)
    THEN fresh_memory(start_of_week(day)) ELSE memory

\* The arcs _ensure_arc may return for a loaded memory.
arc_picks(memory, day) ==
    LET arc_name == week_checked(memory, day).arc
    IN  IF arc_name \in ArcNames THEN {arc_name} ELSE choose_new_arc(arc_name)

\* _ensure_arc, with the arc random.choice drew when one is chosen.
ensure_arc(memory, day, pick) ==
    LET m == week_checked(memory, day)
    IN  IF m.arc \in ArcNames
        THEN [memory |-> m, arc |-> m.arc, selected |-> FALSE, previous |-> m.arc]
        ELSE [memory |-> [m EXCEPT !.arc = pick, !.beat_index = 0],
              arc |-> pick, selected |-> TRUE, previous |-> m.arc]

Take(seq, n) == IF Len(seq) <= n THEN seq ELSE SubSeq(seq, 1, n)

\* _apply_location_rules raises "location banned"
location_banned(name) == normalized(name) \in BANNED_LOCATIONS

\* _update_memory: the record it persists.
update_memory(memory, arc, name, mood) ==
    [memory EXCEPT
        !.arc = arc,
        !.beat_index = @ + 1,
        !.recent_locations = Take(<<name>> \o @, RecencyLimit),
        !.recent_moods = Take(<<mood>> \o @, RecencyLimit)]

mood_at(arc, beat_index) == ArcMoods(arc)[(beat_index % Len(ArcMoods(arc))) + 1]

(***************************************************************************)
(* generators/photo_fetcher.py: the reference-photo cache.  Its            *)
(* MEMORY_PATH is data/scene_memory.json, the scene-memory file; "scenes"  *)
(* tells whether the record holds cached query entries beside the          *)
(* scene-memory fields.                                                    *)
(***************************************************************************)
\* photo_fetcher._load_memory: the cached record, loaded once per process.
load_memory(cache, file) ==
    IF cache # NoCache THEN cache
    ELSE IF file \in {NoFile, Corrupt} THEN EmptyDict ELSE file

(***************************************************************************)
(* The scene-memory specification: post cycles (generate_idea, then the    *)
(* reference-photo fetch of generate_image), snapshots taken by the        *)
(* planner, captioner and engagement cycle, and the passing of days.       *)
(***************************************************************************)
\* The file as n generate_idea calls of one week, each using the arc's
\* first fallback location, leave it.
WrittenFile(week_start, arc, n) ==
    LET kept == IF n < RecencyLimit THEN n ELSE RecencyLimit
    IN  [kind |-> "dict", week_start |-> week_start, arc |-> arc, beat_index |-> n,
         recent_locations |-> [i \in 1..kept |-> ArcLocations(arc)[1]],
         recent_moods |-> [i \in 1..kept |-> mood_at(arc, n - i)],
         scenes |-> FALSE]

\* The process starts on the Sunday of week 0.
StartDay == DaysPerWeek - 1

\* The file at process start: none, unreadable, left by last week's two
\* calls, or left by five calls of this week.
StartFiles ==
    {NoFile, Corrupt} \cup
    {WrittenFile(start_of_week(StartDay) - DaysPerWeek, a, 2) : a \in ArcNames} \cup
    {WrittenFile(start_of_week(StartDay), a, 5) : a \in ArcNames}

LogOf(file, day) ==
    IF file \notin {NoFile, Corrupt} /\ file.week_start = start_of_week(day)
    THEN [i \in 1..Len(file.recent_locations) |->
             [name |-> file.recent_locations[i], mood |-> file.recent_moods[i]]]
    ELSE <<>>

InitSceneCommon ==
    /\ today = StartDay
    /\ memFile \in StartFiles
    /\ photoCache = NoCache
    /\ ideaCalls = 0
    /\ sceneLast = NoCall
    /\ weekArcs = NoArc
    /\ weekBeat = -1
    /\ weekLog = LogOf(memFile, today)
    /\ indexes = EmptyIndexes
    /\ dirty = FALSE
    /\ vsFile = EmptyIndexes
    /\ IdleVSHistory
    /\ IdleSel
    /\ IdleImg
    /\ IdleConc
    /\ IdlePipeline

\* Many calls, few location names: the recency lists fill and truncate.
InitScene ==
    /\ scenario = [names |-> {CleanName}, locs |-> 1, budget |-> MaxIdeaCalls,
                   client |-> TRUE]
    /\ InitSceneCommon

\* Few calls, every kind of location name.
InitLoc ==
    /\ scenario = [names |-> LLMNames, locs |-> 2, budget |-> MaxLocCalls,
                   client |-> TRUE]
    /\ InitSceneCommon

Observe(arc) ==
    IF weekArcs \in {NoArc, arc} THEN arc ELSE "several"

\* generate_idea around the place it settles on: load, _ensure_arc, and
\* _update_memory with the place's name and the mood of the beat.
IdeaCall(pick, name) ==
    /\ ideaCalls < scenario.budget
    /\ LET loaded == load_scene_memory(memFile, today)
           e == ensure_arc(loaded, today, pick)
           beat_index == e.memory.beat_index
           mood == mood_at(e.arc, beat_index)
       IN  /\ pick \in arc_picks(loaded, today)
           /\ memFile' = update_memory(e.memory, e.arc, name, mood)
           /\ sceneLast' = [op |-> "idea", fresh |-> TRUE, arc |-> e.arc, previous |->
                               (IF memFile \in {NoFile, Corrupt} THEN NoArc
                                ELSE memFile.arc),
                            selected |-> e.selected,
                            rolled |-> (loaded.week_start # start_of_week(today)),
                            beat_index |-> beat_index,
                            stored_beat |-> loaded.beat_index,
                            week_start |-> e.memory.week_start,
                            mood |-> mood, name |-> name]
           /\ weekArcs' = Observe(e.arc)
           /\ weekBeat' = beat_index
           /\ weekLog' = Take(<<[name |-> name, mood |-> mood]>> \o weekLog,
                              RecencyLimit)
    /\ ideaCalls' = ideaCalls + 1
    /\ UNCHANGED <<today, photoCache, scenario>>
    /\ UNCHANGED <<varsVS, varsSel, varsImg>>

\* generate_idea, by the text generator's answer (NoName when the client is
\* missing, fails three times or is too similar; else the name of the
\* location it proposed) and the location rules.
GenerateIdea(pick, answer, fallbackAt) ==
    /\ LET e == ensure_arc(load_scene_memory(memFile, today), today, pick)
           fallback == ArcLocations(e.arc)[fallbackAt]
           name == IF answer = NoName THEN fallback
                   ELSE IF location_banned(answer) THEN fallback
                   ELSE answer
       IN  IdeaCall(pick, name)
    /\ UNCHANGED <<varsConc, varsPipeline>>

\* get_scene_memory_snapshot: load and _ensure_arc, nothing persisted.  The
\* caller keeps the loaded dict: _ensure_arc changes it in place unless the
\* week differs, when it builds a new one the caller never sees.
SnapshotCall(pick) ==
    /\ LET loaded == load_scene_memory(memFile, today)
           e == ensure_arc(loaded, today, pick)
           kept == IF loaded.week_start # start_of_week(today)
                   THEN loaded ELSE e.memory
       IN  /\ pick \in arc_picks(loaded, today)
           /\ sceneLast' = [op |-> "snapshot", fresh |-> sceneLast.fresh,
                            arc |-> e.arc, previous |->
                               (IF memFile \in {NoFile, Corrupt} THEN NoArc
                                ELSE memFile.arc),
                            selected |-> e.selected,
                            rolled |-> (loaded.week_start # start_of_week(today)),
                            beat_index |-> kept.beat_index,
                            stored_beat |-> loaded.beat_index,
                            week_start |-> kept.week_start,
                            mood |-> mood_at(e.arc, kept.beat_index),
                            name |-> NoName]
           /\ weekArcs' = Observe(e.arc)
    /\ UNCHANGED <<today, memFile, photoCache, scenario, ideaCalls, weekBeat, weekLog>>
    /\ UNCHANGED <<varsVS, varsSel, varsImg>>

Snapshot(pick) ==
    /\ SnapshotCall(pick)
    /\ UNCHANGED <<varsConc, varsPipeline>>

\* download_reference_images with PEXELS_API_KEY set: "cached" when a similar
\* query is in the cache, "downloaded" when new references were fetched and
\* recorded, "nothing" when the download gave none.  Both saves write the
\* whole cached record to the file.
PhotoFetch(outcome) ==
    /\ LET memory == load_memory(photoCache, memFile)
       IN  CASE outcome = "cached" ->
                    /\ memory.scenes
                    /\ memFile' = memory
                    /\ photoCache' = memory
             [] outcome = "downloaded" ->
                    /\ memFile' = [memory EXCEPT !.scenes = TRUE]
                    /\ photoCache' = [memory EXCEPT !.scenes = TRUE]
             [] outcome = "nothing" ->
                    /\ photoCache' = memory
                    /\ UNCHANGED memFile
    /\ sceneLast' = [sceneLast EXCEPT !.fresh = FALSE]
    /\ UNCHANGED <<today, scenario, ideaCalls, weekArcs, weekBeat, weekLog>>
    /\ UNCHANGED <<varsVS, varsSel, varsImg>>
    /\ UNCHANGED <<varsConc, varsPipeline>>

\* Time passes to a later day.
ClockAdvance(day) ==
    /\ day > today /\ day <= MaxDay
    /\ today' = day
    /\ IF start_of_week(day) # start_of_week(today)
       THEN /\ weekArcs' = NoArc
            /\ weekBeat' = -1
            /\ weekLog' = <<>>
       ELSE UNCHANGED <<weekArcs, weekBeat, weekLog>>
    /\ sceneLast' = [sceneLast EXCEPT !.fresh = FALSE]
    /\ UNCHANGED <<memFile, photoCache, scenario, ideaCalls>>
    /\ UNCHANGED <<varsVS, varsSel, varsImg>>
    /\ UNCHANGED <<varsConc, varsPipeline>>

NextScene ==
    \/ \E pick \in ArcNames, answer \in {NoName} \cup scenario.names,
          fallbackAt \in 1..scenario.locs : GenerateIdea(pick, answer, fallbackAt)
    \/ \E pick \in ArcNames : Snapshot(pick)
    \/ \E outcome \in {"cached", "downloaded", "nothing"} : PhotoFetch(outcome)
    \/ \E day \in 0..MaxDay : ClockAdvance(day)

SpecScene == InitScene /\ [][NextScene]_vars

SpecLoc == InitLoc /\ [][NextScene]_vars

\* C2: whenever _ensure_arc selects a new arc while the persisted record
\* names an arc, the arc selected differs from the one the record named.
C2_NeverRepeatsArc ==
    (sceneLast.selected /\ sceneLast.previous # NoArc) =>
        sceneLast.arc # sceneLast.previous

\* C3: all generate_idea and get_scene_memory_snapshot calls of one calendar
\* week observe the same arc.
C3_OneArcPerWeek == weekArcs # "several"

\* C4: within a calendar week the beat_index seen by successive
\* generate_idea calls never decreases; a call sees beat_index 0 with the
\* recency lists cleared when the stored week_start differs from the current
\* week's, and sees the stored beat_index otherwise.
C4_BeatIndex ==
    [][ideaCalls' > ideaCalls =>
          /\ weekBeat >= 0 => weekBeat' >= weekBeat
          /\ LET loaded == load_scene_memory(memFile, today)
             IN  IF loaded.week_start # start_of_week(today)
                 THEN /\ sceneLast'.beat_index = 0
                      /\ Len(memFile'.recent_locations) = 1
                      /\ Len(memFile'.recent_moods) = 1
                 ELSE sceneLast'.beat_index = loaded.beat_index]_vars

\* Whether a banned entry's words occur, in order and adjacent, in the name.
contains_banned(name) ==
    \E b \in BANNED_LOCATIONS :
        \E at \in 0..(Len(name.words) - Len(b.words)) :
            \A i \in 1..Len(b.words) : name.words[at + i] = b.words[i]

\* C8: the location name generate_idea returns neither equals nor contains
\* a deny-list entry, compared case-insensitively.
C8_NoBannedLocation ==
    sceneLast.op = "idea" => ~contains_banned(sceneLast.name)

\* C9: after a generate_idea call the recency lists hold at most six
\* entries: the locations and moods of this week's latest calls, newest first.
C9_RecencyLists ==
    (sceneLast.fresh /\ memFile.kind = "dict") =>
        /\ Len(memFile.recent_locations) <= RecencyLimit
        /\ Len(memFile.recent_moods) <= RecencyLimit
        /\ memFile.recent_locations = [i \in 1..Len(weekLog) |-> weekLog[i].name]
        /\ memFile.recent_moods = [i \in 1..Len(weekLog) |-> weekLog[i].mood]

\* The post cycles of one process, one after the other: generate_idea, then
\* generate_image with its reference-photo fetch (none when the place has no
\* keywords); snapshots and midnights fall in between.
NextPostCycles ==
    \/ /\ ~sceneLast.fresh
       /\ \E pick \in ArcNames, answer \in {NoName} \cup scenario.names,
             fallbackAt \in 1..scenario.locs : GenerateIdea(pick, answer, fallbackAt)
    \/ /\ sceneLast.fresh
       /\ \E outcome \in {"cached", "downloaded", "nothing"} : PhotoFetch(outcome)
    \/ \E pick \in ArcNames : Snapshot(pick)
    \/ \E day \in 0..MaxDay : ClockAdvance(day)

SpecPostCycles == InitScene /\ [][NextPostCycles]_vars

\* The arc-state fields of the scene-memory file.
ArcFields(file) ==
    [week_start |-> file.week_start, arc |-> file.arc, beat_index |-> file.beat_index,
     recent_locations |-> file.recent_locations, recent_moods |-> file.recent_moods]

\* C33: the first generate_idea of a week that finds no record of the week
\* persists beat_index 1, each later one of the week persists one more than
\* the one before it, and no other step, the reference-photo fetch above
\* all, changes the arc-state fields of the file.
C33_BeatPerCycle ==
    [][/\ (ideaCalls' > ideaCalls /\ weekBeat >= 0) =>
              memFile'.beat_index = weekBeat + 2
       /\ (ideaCalls' > ideaCalls /\ weekBeat < 0
              /\ load_scene_memory(memFile, today).week_start # start_of_week(today)) =>
              memFile'.beat_index = 1
       /\ ideaCalls' = ideaCalls => ArcFields(memFile') = ArcFields(memFile)]_vars

\* A step that is a get_scene_memory_snapshot call.
SnapshotStep ==
    /\ sceneLast'.op = "snapshot"
    /\ sceneLast'.fresh = sceneLast.fresh
    /\ today' = today
    /\ (sceneLast' # sceneLast \/ weekArcs' # weekArcs)

\* C34: a snapshot never changes the persisted record, and one taken when
\* the stored week_start is not this week's Monday reports this week's
\* Monday and the mood of beat index 0 of the arc it reports.
C34_SnapshotAtRollover ==
    [][SnapshotStep =>
          /\ memFile' = memFile
          /\ sceneLast'.rolled =>
                 /\ sceneLast'.week_start = start_of_week(today)
                 /\ sceneLast'.beat_index = 0
                 /\ sceneLast'.mood = mood_at(sceneLast'.arc, 0)]_vars

(***************************************************************************)
(* core/scheduler.py: the post callbacks of one day.  BackgroundScheduler  *)
(* runs each job on a worker thread of its pool, so the steps of two       *)
(* run_post_cycle calls interleave.  PEXELS_API_KEY is unset, so the       *)
(* reference-photo fetch returns at once and leaves the file alone, and    *)
(* the text client is missing, so generate_idea uses the arc's fallback.   *)
(* A callback reads the scene memory, later writes it, then constructs     *)
(* VariationState (a read of its file) and later saves it.                 *)
(***************************************************************************)
Callbacks == 1..MaxCallbacks

NoLocals == [memory |-> EmptyDict, arc |-> NoArc]

\* The scene-memory files the callbacks may find: none, or one left by up
\* to two generate_idea calls of this week.
ConcFiles ==
    {NoFile} \cup {WrittenFile(start_of_week(StartDay), a, n) : a \in ArcNames, n \in 1..2}

InitConc ==
    /\ cbPc = [c \in Callbacks |-> "scheduled"]
    /\ cbMemory = [c \in Callbacks |-> NoLocals]
    /\ cbIndexes = [c \in Callbacks |-> EmptyIndexes]
    /\ today = StartDay
    /\ memFile \in ConcFiles
    /\ startBeat = load_scene_memory(memFile, today).beat_index
    /\ photoCache = NoCache
    /\ scenario = [names |-> {}, locs |-> 1, budget |-> MaxCallbacks]
    /\ ideaCalls = 0
    /\ sceneLast = NoCall
    /\ weekArcs = NoArc
    /\ weekBeat = -1
    /\ weekLog = <<>>
    /\ poseLib = [k \in PoseKeys |-> AbsentPose]
    /\ imgPasses = 0
    /\ imgLast = NoPass
    /\ indexes = EmptyIndexes
    /\ dirty = FALSE
    /\ vsFile = EmptyIndexes
    /\ IdleVSHistory
    /\ IdleSel
    /\ IdlePipeline

\* generate_idea up to the text generator call: _load_scene_memory and
\* _ensure_arc fill the callback's locals.
IdeaLoad(c, pick) ==
    /\ cbPc[c] = "scheduled"
    /\ LET loaded == load_scene_memory(memFile, today)
           e == ensure_arc(loaded, today, pick)
       IN  /\ pick \in arc_picks(loaded, today)
           /\ cbMemory' = [cbMemory EXCEPT ![c] = [memory |-> e.memory, arc |-> e.arc]]
    /\ cbPc' = [cbPc EXCEPT ![c] = "idea_loaded"]
    /\ UNCHANGED <<cbIndexes, startBeat>>
    /\ UNCHANGED <<varsVS, varsSel, varsImg, varsScene>>
    /\ UNCHANGED varsPipeline

\* generate_idea from the fallback to _update_memory: the callback's locals,
\* one beat further, replace the file.
IdeaPersist(c) ==
    /\ cbPc[c] = "idea_loaded"
    /\ LET m == cbMemory[c]
       IN  memFile' = update_memory(m.memory, m.arc, ArcLocations(m.arc)[1],
                                    mood_at(m.arc, m.memory.beat_index))
    /\ ideaCalls' = ideaCalls + 1
    /\ cbPc' = [cbPc EXCEPT ![c] = "idea_saved"]
    /\ UNCHANGED <<cbMemory, cbIndexes, startBeat>>
    /\ UNCHANGED <<today, photoCache, scenario, sceneLast, weekArcs, weekBeat, weekLog>>
    /\ UNCHANGED <<varsVS, varsSel, varsImg>>
    /\ UNCHANGED varsPipeline

\* generate_image: VariationState() reads the variation file.
StateLoad(c) ==
    /\ cbPc[c] = "idea_saved"
    /\ cbIndexes' = [cbIndexes EXCEPT ![c] = vsFile]
    /\ cbPc' = [cbPc EXCEPT ![c] = "state_loaded"]
    /\ UNCHANGED <<cbMemory, startBeat>>
    /\ UNCHANGED <<varsVS, varsSel, varsImg, varsScene>>
    /\ UNCHANGED varsPipeline

\* generate_image: the selection pass on the callback's object, then
\* state.save() replaces the variation file.
StateSave(c, category, hasKeywords) ==
    /\ cbPc[c] = "state_loaded"
    /\ LET r == selection_pass(cbIndexes[c], poseLib, category,
                               background_confidence(0, hasKeywords))
       IN  /\ vsFile' = r.ix
           /\ cbIndexes' = [cbIndexes EXCEPT ![c] = r.ix]
    /\ imgPasses' = imgPasses + 1
    /\ cbPc' = [cbPc EXCEPT ![c] = "done"]
    /\ UNCHANGED <<cbMemory, startBeat>>
    /\ UNCHANGED <<indexes, dirty, advCount, advLen, lastGot, saveLast, poseLib, imgLast>>
    /\ UNCHANGED <<varsSel, varsScene>>
    /\ UNCHANGED varsPipeline

NextConc ==
    \E c \in Callbacks :
        \/ \E pick \in ArcNames : IdeaLoad(c, pick)
        \/ IdeaPersist(c)
        \/ StateLoad(c)
        \/ \E category \in Categories, hasKeywords \in BOOLEAN :
               StateSave(c, category, hasKeywords)

SpecConc == InitConc /\ [][NextConc]_vars

AllDone == \A c \in Callbacks : cbPc[c] = "done"

\* C10: when overlapping post callbacks have all finished, the persisted
\* files reflect every one of them: beat_index grew by the number of
\* callbacks and the imperfection rotation moved once per callback.
C10_NoLostUpdate ==
    AllDone =>
        /\ memFile.beat_index = startBeat + MaxCallbacks
        /\ get_index(vsFile, <<"imperfection">>, ImperfectionCount)
               = MaxCallbacks % ImperfectionCount

(***************************************************************************)
(* core/scheduler.py: the daily cadence.  Times are minutes; engagement    *)
(* scores are exact fractions <<numerator, denominator>> with a positive   *)
(* denominator.                                                            *)
(***************************************************************************)
Frac(n, d) == <<n, d>>
FracAdd(a, b) == <<a[1] * b[2] + b[1] * a[2], a[2] * b[2]>>
FracLess(a, b) == a[1] * b[2] < b[1] * a[2]
FracMin(a, b) == IF FracLess(b, a) THEN b ELSE a
FracMax(a, b) == IF FracLess(a, b) THEN b ELSE a
FracEq(a, b) == a[1] * b[2] = b[1] * a[2]

MinutesPerHour == 60

\* One record of load_recent_posts: its metrics, and the age of its
\* created_at stamp (dated is FALSE when the stamp is absent or unparseable).
Post(likes, comments, followers, dated, age) ==
    [likes |-> likes, comments |-> comments, followers |-> followers,
     dated |-> dated, age |-> age]

\* (likes + comments * 2) / max(followers or 1, 1) of one record
post_score(p) ==
    Frac(p.likes + p.comments * 2, IF p.followers < 1 THEN 1 ELSE p.followers)

RECURSIVE score_sum(_)
score_sum(posts) ==
    IF posts = <<>> THEN Frac(0, 1)
    ELSE FracAdd(post_score(Head(posts)), score_sum(Tail(posts)))

\* _engagement_hint
engagement_hint(posts) ==
    IF posts = <<>> THEN Frac(5, 10)
    ELSE LET total == score_sum(posts)
             tripled == Frac(total[1] * 3, total[2] * Len(posts))
         IN  FracMax(Frac(1, 10), FracMin(tripled, Frac(9, 10)))

\* _recent_hours_since_last_post, in minutes
NoPostHours == 999
recent_hours_since_last_post(posts) ==
    IF posts = <<>> THEN NoPostHours * MinutesPerHour
    ELSE IF Head(posts).dated THEN Head(posts).age
    ELSE NoPostHours * MinutesPerHour

LongGapHours == 28
ShortGapHours == 18
WarmEngagement == Frac(35, 100)
HighEngagement == Frac(55, 100)

\* The two escalation rules of _decide_post_count.
long_gap_rule(engagement, minutes) ==
    minutes > LongGapHours * MinutesPerHour /\ FracLess(WarmEngagement, engagement)
high_engagement_rule(engagement, minutes) ==
    FracLess(HighEngagement, engagement) /\ minutes > ShortGapHours * MinutesPerHour

\* A faulty decision that escalates from 28 hours on instead of after them.
decide_post_count_from(posts, bonus) ==
    LET engagement == engagement_hint(posts)
        minutes == recent_hours_since_last_post(posts)
    IN  IF minutes >= LongGapHours * MinutesPerHour
           /\ FracLess(WarmEngagement, engagement) THEN 2
        ELSE IF high_engagement_rule(engagement, minutes) THEN 2
        ELSE IF bonus THEN 2 ELSE 1

\* _decide_post_count; bonus tells whether random.random() fell below 0.15
decide_post_count(posts, bonus) ==
    LET engagement == engagement_hint(posts)
        minutes == recent_hours_since_last_post(posts)
    IN  IF long_gap_rule(engagement, minutes) THEN 2
        ELSE IF high_engagement_rule(engagement, minutes) THEN 2
        ELSE IF bonus THEN 2 ELSE 1

\* The post records the decision is exercised with.
MetricSamples ==
    {<<2, 0, 15>>, <<3, 0, 20>>, <<2, 0, 20>>, <<2, 1, 20>>, <<0, 0, 20>>, <<4, 1, 0>>}
AgeSamples ==
    {ShortGapHours * MinutesPerHour, ShortGapHours * MinutesPerHour + 1,
     LongGapHours * MinutesPerHour, LongGapHours * MinutesPerHour + 1,
     (LongGapHours + 2) * MinutesPerHour}
PostSamples ==
    {Post(m[1], m[2], m[3], TRUE, a) : m \in MetricSamples, a \in AgeSamples}
        \cup {Post(m[1], m[2], m[3], FALSE, 0) : m \in MetricSamples}
PostLists ==
    UNION {[1..n -> PostSamples] : n \in 0..MaxPosts}

InitCount ==
    /\ recentPosts \in PostLists
    /\ arcState = [arc |-> NoArc, beat_index |-> 0]
    /\ cadLast = NoCadence
    /\ IdleEngine
    /\ IdlePlan
    /\ IdleAfterPlan

\* _decide_post_count(recent_posts)
DecidePostCount(bonus) ==
    /\ cadLast' = [op |-> "decide", count |-> decide_post_count(recentPosts, bonus),
                   bonus |-> bonus, windows |-> <<>>]
    /\ UNCHANGED <<recentPosts, arcState>>
    /\ UNCHANGED <<varsEngine, varsPlan, varsAfterPlan>>

NextCount == \E bonus \in BOOLEAN : DecidePostCount(bonus)

SpecCount == InitCount /\ [][NextCount]_vars

\* C14: _decide_post_count returns 1 or 2; it returns 2 whenever more than
\* 28 hours have passed with engagement above 0.35, or engagement is above
\* 0.55 with more than 18 hours passed; when neither rule holds it returns
\* 2 exactly when the random bonus fired, and 1 otherwise.
C14_PostCount ==
    cadLast.op = "decide" =>
        LET engagement == engagement_hint(recentPosts)
            minutes == recent_hours_since_last_post(recentPosts)
            ruled == \/ (minutes > 28 * 60 /\ engagement[1] * 100 > 35 * engagement[2])
                     \/ (engagement[1] * 100 > 55 * engagement[2] /\ minutes > 18 * 60)
        IN  /\ cadLast.count \in {1, 2}
            /\ ruled => cadLast.count = 2
            /\ ~ruled => cadLast.count = (IF cadLast.bonus THEN 2 ELSE 1)

\* The example of the claim: 30 hours since the last post and an
\* engagement of 0.4 give two posts although no bonus fired.
C14_Witness ==
    /\ cadLast.op = "decide"
    /\ ~cadLast.bonus
    /\ recent_hours_since_last_post(recentPosts) = 30 * 60
    /\ FracEq(engagement_hint(recentPosts), Frac(4, 10))
    /\ cadLast.count = 2

(***************************************************************************)
(* core/scheduler.py: the posting windows of the day.                      *)
(***************************************************************************)
Window(name, start_hour, end_hour) ==
    [name |-> name, start_hour |-> start_hour, end_hour |-> end_hour]

\* WINDOWS, in the order of the dict
WINDOWS ==
    <<Window("sunrise", 7, 10), Window("late_morning", 10, 12),
      Window("afternoon", 13, 16), Window("evening", 18, 21),
      Window("night", 21, 23)>>

\* The beats of every arc of WEEKLY_ARCS.
ArcBeats(arc) ==
    CASE arc = "Cafe Drift Week" ->
             <<"soft morning journal", "noon latte refill", "rainy window reflection",
               "evening latte art study", "weekend slow brunch">>
      [] arc = "Metro Echoes" ->
             <<"morning commute", "crowded noon ride", "quiet carriage scroll",
               "rain on metro windows", "late ride home">>
      [] arc = "Night Walks by the River" ->
             <<"blue hour walk", "post-edit stretch", "humid neon pause",
               "footbridge reflections", "late ferry breeze">>
      [] arc = "Study Chinese Week" ->
             <<"morning vocab warmup", "tone practice at lunch",
               "flashcards on the metro", "tired evening review", "weekend mock test">>
      [] arc = "Mall Weekends" ->
             <<"morning escalator ride", "window shopping pause", "food court break",
               "arcade detour", "night roof deck">>

AllArcs == {WEEKLY_ARCS[i] : i \in 1..Len(WEEKLY_ARCS)}

\* get_scene_memory_snapshot: the beat of a beat_index
beat_at(arc, beat_index) == ArcBeats(arc)[(beat_index % Len(ArcBeats(arc))) + 1]

\* "night" in beat and "study" in beat, over the beats of the catalog
NightBeats == {"night roof deck"}
StudyBeats == {"evening latte art study"}

\* A faulty preference that looks at the mood alone.
preferred_windows_by_mood(mood, beat) ==
    IF mood \in {"reflective", "restless"} THEN <<"evening", "night">>
    ELSE IF mood \in {"focused", "hopeful"}
         THEN <<"sunrise", "late_morning", "afternoon">>
    ELSE IF mood \in {"playful", "adventurous"}
         THEN <<"late_morning", "afternoon", "evening">>
    ELSE <<"late_morning", "evening">>

\* _preferred_windows
preferred_windows(mood, beat) ==
    IF beat \in NightBeats \/ mood \in {"reflective", "restless"}
    THEN <<"evening", "night">>
    ELSE IF beat \in StudyBeats \/ mood \in {"focused", "hopeful"}
         THEN <<"sunrise", "late_morning", "afternoon">>
    ELSE IF mood \in {"playful", "adventurous"}
         THEN <<"late_morning", "afternoon", "evening">>
    ELSE <<"late_morning", "evening">>

\* priority.index(name) if name in priority else len(priority), counted from 1
priority_key(priority, name) ==
    IF \E i \in 1..Len(priority) : priority[i] = name
    THEN CHOOSE i \in 1..Len(priority) :
             priority[i] = name /\ \A j \in 1..(i - 1) : priority[j] # name
    ELSE Len(priority) + 1

\* sorted(candidates, key=...): a stable sort, key by key
RECURSIVE sorted_from(_, _)
sorted_from(priority, key) ==
    IF key > Len(priority) + 1 THEN <<>>
    ELSE SelectSeq(WINDOWS, LAMBDA w : priority_key(priority, w.name) = key)
             \o sorted_from(priority, key + 1)

\* _choose_windows: the sorted candidates already hold every window, so
\* the random fill has nothing left to add.
choose_windows(count, mood, beat) ==
    Take(sorted_from(preferred_windows(mood, beat), 1), count)

NamesOf(windows) == [i \in 1..Len(windows) |-> windows[i].name]

InitWindows ==
    /\ recentPosts = <<>>
    /\ arcState \in [arc : AllArcs, beat_index : 0..MaxBeat]
    /\ cadLast = NoCadence
    /\ IdleEngine
    /\ IdlePlan
    /\ IdleAfterPlan

\* _choose_windows(count, get_scene_memory_snapshot())
ChooseWindows(count) ==
    /\ cadLast' = [op |-> "choose", count |-> count, bonus |-> FALSE,
                   windows |-> NamesOf(choose_windows(count,
                                   mood_at(arcState.arc, arcState.beat_index),
                                   beat_at(arcState.arc, arcState.beat_index)))]
    /\ UNCHANGED <<recentPosts, arcState>>
    /\ UNCHANGED <<varsEngine, varsPlan, varsAfterPlan>>

NextWindows == \E count \in {1, 2} : ChooseWindows(count)

SpecWindows == InitWindows /\ [][NextWindows]_vars

Distinct(seq) == \A i, j \in 1..Len(seq) : i # j => seq[i] # seq[j]

\* The mood and the beat of the arc state the windows were chosen for.
MoodNow == mood_at(arcState.arc, arcState.beat_index)
BeatNow == beat_at(arcState.arc, arcState.beat_index)

ENGAGEMENT_WINDOW == [start_hour |-> 9, end_hour |-> 22]
ENGAGEMENT_BUFFER_MINUTES == 45
MinDesired == 2
HighDesired == 5
LatestEndHour == 23
EarliestStartHour == 8
AttemptsPerSlot == 6

Abs(n) == IF n < 0 THEN 0 - n ELSE n

\* A faulty distance test that accepts a candidate exactly one buffer away.
is_far_from_post_or_at(candidate, times) ==
    \A i \in 1..Len(times) : Abs(candidate - times[i]) >= ENGAGEMENT_BUFFER_MINUTES

\* _is_far_from_post
is_far_from_post(candidate, times) ==
    \A i \in 1..Len(times) : Abs(candidate - times[i]) > ENGAGEMENT_BUFFER_MINUTES

\* _engagement_slots: the hours of the mood-adjusted window
engagement_hours(mood) ==
    LET end_hour == IF mood \in {"reflective", "restless"}
                    THEN (IF ENGAGEMENT_WINDOW.end_hour + 1 < LatestEndHour
                          THEN ENGAGEMENT_WINDOW.end_hour + 1 ELSE LatestEndHour)
                    ELSE ENGAGEMENT_WINDOW.end_hour
        start_hour == IF mood \in {"playful", "adventurous"}
                      THEN (IF ENGAGEMENT_WINDOW.start_hour - 1 > EarliestStartHour
                            THEN ENGAGEMENT_WINDOW.start_hour - 1 ELSE EarliestStartHour)
                      ELSE ENGAGEMENT_WINDOW.start_hour
    IN  [start_hour |-> start_hour, end_hour |-> end_hour]

\* _random_time_between: the instants of a window that are sampled; the
\* draw random.randint(0, delta) includes both ends.
TimeSamples(start_hour, end_hour) ==
    {start_hour * MinutesPerHour, end_hour * MinutesPerHour}

PostInstants ==
    UNION {TimeSamples(WINDOWS[i].start_hour, WINDOWS[i].end_hour) :
               i \in 1..Len(WINDOWS)}

\* The candidates the slot loop is sampled with: both ends of the window
\* and the instants one buffer, and one minute more, after each post.
CandidateSamples(mood, times) ==
    LET hours == engagement_hours(mood)
        lo == hours.start_hour * MinutesPerHour
        hi == hours.end_hour * MinutesPerHour
    IN  {t \in {lo, hi} \cup {times[i] + d : i \in 1..Len(times),
                              d \in {ENGAGEMENT_BUFFER_MINUTES,
                                     ENGAGEMENT_BUFFER_MINUTES + 1}} :
            lo <= t /\ t <= hi}

\* The arc states and post histories the day is planned with.
PlanArcStates ==
    {[arc |-> "Cafe Drift Week", beat_index |-> b] : b \in 0..2}
        \cup {[arc |-> "Mall Weekends", beat_index |-> 0]}
PlanPostLists ==
    {<<>>, <<Post(2, 0, 20, TRUE, ShortGapHours * MinutesPerHour)>>}

InitPlan ==
    /\ recentPosts \in PlanPostLists
    /\ arcState \in PlanArcStates
    /\ cadLast = NoCadence
    /\ IdlePlan
    /\ IdleEngine
    /\ IdleAfterPlan

\* plan_day up to the slot loop of _engagement_slots: the post count, the
\* windows, one instant per window, and the desired number of bursts.
PlanDay(bonus, d) ==
    /\ planPc = "idle"
    /\ d \in MinDesired..(IF MaxDesired < HighDesired THEN MaxDesired ELSE HighDesired)
    /\ LET mood == mood_at(arcState.arc, arcState.beat_index)
           beat == beat_at(arcState.arc, arcState.beat_index)
           count == decide_post_count(recentPosts, bonus)
           windows == choose_windows(count, mood, beat)
       IN  /\ \E times \in [1..Len(windows) -> PostInstants] :
                 /\ \A i \in 1..Len(windows) :
                        times[i] \in TimeSamples(windows[i].start_hour,
                                                 windows[i].end_hour)
                 /\ postTimes' = times
           /\ cadLast' = [op |-> "plan", count |-> count, bonus |-> bonus,
                          windows |-> NamesOf(windows)]
    /\ desired' = d
    /\ planPc' = "slots"
    /\ slots' = <<>>
    /\ attempts' = 0
    /\ UNCHANGED <<recentPosts, arcState, postRun, slotRun>>
    /\ UNCHANGED <<varsEngine, varsAfterPlan>>

\* A faulty loop test that has no attempt budget.
slots_wanted_unbounded(found, wanted, tried) == Len(found) < wanted

\* _engagement_slots: the test of its while loop
slots_wanted(found, wanted, tried) ==
    Len(found) < wanted /\ tried < wanted * AttemptsPerSlot

\* One pass of the loop of _engagement_slots; when the loop ends its
\* counter is gone, and _plan_engagement_day has one date-triggered job per
\* slot added, next to the post jobs plan_day added before.
EngagementAttempt(candidate) ==
    /\ planPc = "slots"
    /\ candidate \in CandidateSamples(mood_at(arcState.arc, arcState.beat_index),
                                      postTimes)
    /\ LET accepted == is_far_from_post(candidate, postTimes)
                           /\ is_far_from_post(candidate, slots)
           after == IF accepted THEN Append(slots, candidate) ELSE slots
           again == slots_wanted(after, desired, attempts + 1)
       IN  /\ slots' = after
           /\ attempts' = IF again THEN attempts + 1 ELSE 0
           /\ planPc' = IF again THEN "slots" ELSE "planned"
           /\ postRun' = IF again THEN postRun
                         ELSE [i \in 1..Len(postTimes) |-> "pending"]
           /\ slotRun' = IF again THEN slotRun
                         ELSE [i \in 1..Len(after) |-> "pending"]
    /\ UNCHANGED <<recentPosts, arcState, cadLast, postTimes, desired>>
    /\ UNCHANGED <<varsEngine, varsAfterPlan>>

\* The jobs of the plan: their kind, their index and their instant.
PlanJobs ==
    {[kind |-> "post", index |-> i, at |-> postTimes[i]] : i \in 1..Len(postRun)}
        \cup {[kind |-> "engagement", index |-> i, at |-> slots[i]] :
                   i \in 1..Len(slotRun)}

RunState(job) ==
    IF job.kind = "post" THEN postRun[job.index] ELSE slotRun[job.index]

SetRun(job, status) ==
    /\ postRun' = IF job.kind = "post"
                  THEN [postRun EXCEPT ![job.index] = status] ELSE postRun
    /\ slotRun' = IF job.kind = "engagement"
                  THEN [slotRun EXCEPT ![job.index] = status] ELSE slotRun

\* The background scheduler submits a due job to its thread-pool executor:
\* the jobs start in the order of their instants, whatever is running.
StartJob(job) ==
    /\ planPc = "planned"
    /\ job \in PlanJobs
    /\ RunState(job) = "pending"
    /\ \A other \in PlanJobs : other.at < job.at => RunState(other) # "pending"
    /\ SetRun(job, "running")
    /\ UNCHANGED <<recentPosts, arcState, cadLast, planPc, postTimes, desired,
                   slots, attempts>>
    /\ UNCHANGED <<varsEngine, varsAfterPlan>>

\* _task returns: run_post_cycle or run_engagement_cycle ended, or raised
\* and was logged.
FinishJob(job) ==
    /\ planPc = "planned"
    /\ job \in PlanJobs
    /\ RunState(job) = "running"
    /\ SetRun(job, "done")
    /\ UNCHANGED <<recentPosts, arcState, cadLast, planPc, postTimes, desired,
                   slots, attempts>>
    /\ UNCHANGED <<varsEngine, varsAfterPlan>>

NextPlan ==
    \/ \E bonus \in BOOLEAN, d \in MinDesired..HighDesired : PlanDay(bonus, d)
    \/ \E candidate \in CandidateSamples(mood_at(arcState.arc, arcState.beat_index),
                                           postTimes) :
           EngagementAttempt(candidate)
    \/ \E job \in PlanJobs : StartJob(job)
    \/ \E job \in PlanJobs : FinishJob(job)

SpecPlan == InitPlan /\ [][NextPlan]_vars

\* plan_day alone: the slot loop runs on until it ends, whatever instants
\* it draws.
NextSlots ==
    \/ \E bonus \in BOOLEAN, d \in MinDesired..HighDesired : PlanDay(bonus, d)
    \/ \E candidate \in CandidateSamples(mood_at(arcState.arc, arcState.beat_index),
                                           postTimes) :
           EngagementAttempt(candidate)

DrawsOn ==
    \E candidate \in CandidateSamples(mood_at(arcState.arc, arcState.beat_index),
                                       postTimes) :
        EngagementAttempt(candidate)

SpecSlots == InitPlan /\ [][NextSlots]_vars /\ WF_vars(DrawsOn)

Running == {job \in PlanJobs : RunState(job) = "running"}

\* C11: scheduled callbacks run serially: at no time are two callbacks of
\* the day's plan executing.
C11_Serial == Cardinality(Running) <= 1

\* C12: any two callbacks of one day's plan (post and post, post and
\* engagement, engagement and engagement) are planned more than 45 minutes
\* apart.
C12_AllBuffered ==
    planPc = "planned" =>
        \A a, b \in PlanJobs : a # b => Abs(a.at - b.at) > 45

\* C13: every engagement instant chosen by _engagement_slots is more than
\* 45 minutes from every planned post and from every other chosen instant,
\* lies inside the engagement window (9:00 to 22:00, its end moved to 23:00
\* for a reflective or restless mood, its start to 8:00 for a playful or
\* adventurous one), and no more instants are chosen than were desired, a
\* number from 2 to 5.
C13_EngagementSlots ==
    planPc \in {"slots", "planned"} =>
        LET lo == IF MoodNow \in {"playful", "adventurous"} THEN 8 * 60 ELSE 9 * 60
            hi == IF MoodNow \in {"reflective", "restless"} THEN 23 * 60 ELSE 22 * 60
        IN  /\ desired \in 2..5
            /\ Len(slots) <= desired
            /\ \A i \in 1..Len(slots) :
                   /\ lo <= slots[i] /\ slots[i] <= hi
                   /\ \A p \in 1..Len(postTimes) : Abs(slots[i] - postTimes[p]) > 45
                   /\ \A j \in 1..Len(slots) : i # j => Abs(slots[i] - slots[j]) > 45

\* A reflective day is planned in full: as many bursts as desired, one of
\* them 46 minutes after the post and one in the added hour after 22:00.
C13_Witness ==
    /\ planPc = "planned"
    /\ MoodNow = "reflective"
    /\ Len(slots) = desired
    /\ \E i \in 1..Len(slots) : slots[i] > 22 * 60
    /\ \E i \in 1..Len(slots), p \in 1..Len(postTimes) : slots[i] = postTimes[p] + 46

\* C38: while the slot loop runs it has drawn fewer than 6 x desired
\* instants, each pass draws one more, so the loop ends, and it ends with no
\* more instants than desired: with fewer, or none, when the draws were
\* rejected.
C38_SlotsTerminate ==
    /\ [][planPc' = "slots" =>
             (attempts' < desired' * AttemptsPerSlot /\ Len(slots') <= attempts')]_vars
    /\ [][(planPc = "slots" /\ planPc' = "slots") => attempts' = attempts + 1]_vars
    /\ [][(planPc = "slots" /\ planPc' = "planned") => Len(slots') <= desired]_vars
    /\ (planPc = "slots") ~> (planPc = "planned")

\* C38 witness: every one of the 6 x desired draws fell within 45 minutes of
\* the post, and the day is planned with no engagement burst.
C38_Witness ==
    /\ planPc = "planned"
    /\ postTimes # <<>>
    /\ desired = MaxDesired
    /\ slots = <<>>

(***************************************************************************)
(* core/scheduler.py: the process of start_dynamic_scheduler.  The main    *)
(* thread starts the background scheduler, plans the day, registers the    *)
(* daily re-plan and sleeps in its loop; the jobs run on the scheduler's   *)
(* worker threads, which log what a job raises and keep the job store.     *)
(***************************************************************************)
FailureKinds == {"initial plan", "re-plan", "callback", "cron", "sleep"}

\* A start_dynamic_scheduler whose first plan_day call has no try around it.
after_initial_plan_unguarded(raised) == IF raised THEN "crashed" ELSE "registering"

\* try: plan_day(scheduler) except Exception: log -- where the main thread
\* goes next
after_initial_plan(raised) == "registering"

Min(a, b) == IF a < b THEN a ELSE b

InitSched ==
    /\ schedPc = "starting"
    /\ cronJob = FALSE
    /\ dueJobs = 0
    /\ absorbed = {}
    /\ replans = 0
    /\ IdleEngine
    /\ IdleCad
    /\ IdlePlan
    /\ IdleOrch
    /\ IdlePub
    /\ IdleEngage
    /\ IdleCycle
    /\ IdleLoad
    /\ IdleTargets
    /\ IdleDays
    /\ IdleText

SchedFrame == UNCHANGED <<varsEngine, varsCad, varsPlan, varsOrch, varsPub, varsEngage,
                        varsCycle, varsLoad, varsTargets,
                        varsDays, varsText>>

\* scheduler.start(): a failure is logged and start_dynamic_scheduler returns
SchedulerStart(ok) ==
    /\ schedPc = "starting"
    /\ schedPc' = IF ok THEN "planning" ELSE "returned"
    /\ UNCHANGED <<cronJob, dueJobs, absorbed, replans>>
    /\ SchedFrame

\* The first plan_day: it adds some date-triggered jobs and may raise
\* part-way.
InitialPlan(raised, added) ==
    /\ schedPc = "planning"
    /\ schedPc' = after_initial_plan(raised)
    /\ dueJobs' = Min(dueJobs + added, MaxDue)
    /\ absorbed' = IF raised THEN absorbed \cup {"initial plan"} ELSE absorbed
    /\ UNCHANGED <<cronJob, replans>>
    /\ SchedFrame

\* scheduler.add_job(plan_day, "cron", hour=0, minute=5), inside its try
RegisterCron(ok) ==
    /\ schedPc = "registering"
    /\ cronJob' = ok
    /\ absorbed' = IF ok THEN absorbed ELSE absorbed \cup {"cron"}
    /\ schedPc' = "looping"
    /\ UNCHANGED <<dueJobs, replans>>
    /\ SchedFrame

\* A due post or engagement job runs: _task catches what the cycle raises.
Callback(raised) ==
    /\ schedPc \in {"registering", "looping"}
    /\ dueJobs > 0
    /\ dueJobs' = dueJobs - 1
    /\ absorbed' = IF raised THEN absorbed \cup {"callback"} ELSE absorbed
    /\ UNCHANGED <<schedPc, cronJob, replans>>
    /\ SchedFrame

\* The daily job runs plan_day on a worker thread; the executor logs what
\* it raises and the cron job stays in the job store.
Replan(raised, added) ==
    /\ schedPc = "looping"
    /\ cronJob
    /\ replans < MaxReplans
    /\ replans' = replans + 1
    /\ dueJobs' = Min(dueJobs + added, MaxDue)
    /\ absorbed' = IF raised THEN absorbed \cup {"re-plan"} ELSE absorbed
    /\ UNCHANGED <<schedPc, cronJob>>
    /\ SchedFrame

\* time.sleep(60) raises an Exception: the inner handler logs it
SleepInterrupted ==
    /\ schedPc = "looping"
    /\ absorbed' = absorbed \cup {"sleep"}
    /\ UNCHANGED <<schedPc, cronJob, dueJobs, replans>>
    /\ SchedFrame

\* KeyboardInterrupt: the loop ends and finally runs scheduler.shutdown
Interrupt ==
    /\ schedPc = "looping"
    /\ schedPc' = "stopped"
    /\ cronJob' = FALSE
    /\ dueJobs' = 0
    /\ UNCHANGED <<absorbed, replans>>
    /\ SchedFrame

NextSched ==
    \/ \E ok \in BOOLEAN : SchedulerStart(ok)
    \/ \E raised \in BOOLEAN, added \in 0..MaxDue : InitialPlan(raised, added)
    \/ \E ok \in BOOLEAN : RegisterCron(ok)
    \/ \E raised \in BOOLEAN : Callback(raised)
    \/ \E raised \in BOOLEAN, added \in 0..MaxDue : Replan(raised, added)
    \/ SleepInterrupted
    \/ Interrupt

SpecSched == InitSched /\ [][NextSched]_vars

\* C16: no failing plan_day (first plan or daily re-plan) and no exception
\* of a post or engagement callback ends the process: after the first plan
\* the main thread goes on to register the re-plan, every step taken while
\* the loop runs leaves the loop running and the re-plan job as it was,
\* and the loop is left only by the external interrupt.
C16_Survives ==
    [][/\ schedPc = "planning" => schedPc' = "registering"
       /\ schedPc = "registering" => schedPc' \in {"registering", "looping"}
       /\ schedPc = "looping" =>
              \/ schedPc' = "looping" /\ cronJob' = cronJob
              \/ schedPc' = "stopped" /\ absorbed' = absorbed /\ dueJobs' = 0
       /\ schedPc' # "crashed"]_vars

\* The first plan, a re-plan and a callback have all failed, and the loop
\* is running with the re-plan job registered.
C16_Witness ==
    /\ schedPc = "looping"
    /\ cronJob
    /\ {"initial plan", "re-plan", "callback"} \subseteq absorbed

(***************************************************************************)
(* run_post_cycle.py: one post cycle.  The collaborators are inputs: what  *)
(* the persona file holds, and how the text generator, the photo search,   *)
(* the image generator and the publish backend answer.                     *)
(***************************************************************************)
Personas == {"ok", "empty", "missing"}
Answers == {"ok", "fails"}
\* post_feed: the statuses it returns, or an exception
PublishOutcomes == {"success", "pending", "error", "raised"}

CycleInputs ==
    [persona : Personas, text : Answers, photos : Answers, image : Answers,
     clip : BOOLEAN, auto_post : BOOLEAN, publish : PublishOutcomes,
     preview : Answers]

\* generate_idea: three attempts at the text generator, then the template
\* idea of the beat; it always returns an idea.
generate_idea_result(text) == IF text = "ok" THEN "generated" ELSE "template"

\* download_reference_images: a failed search gives no reference photos
reference_photos(photos) == IF photos = "ok" THEN "some" ELSE "none"

\* generate_image: the image generator's failure (or a missing key) leaves
\* the function as an exception
generate_image_result(image) == IF image = "ok" THEN "image" ELSE "raised"

\* create_motion_clip: a clip path, or None
create_motion_clip_result(clip) == IF clip THEN "clip" ELSE "none"

\* generate_caption: three attempts, then the mock caption
generate_caption_result(text) == IF text = "ok" THEN "generated" ELSE "mock"

NoRecord ==
    [idea |-> "none", image |-> "none", caption |-> "none", media_type |-> "none",
     posted |-> FALSE]

\* run_post_cycle(persona_name, auto_post): how the call ends and, when it
\* returns, the result record
run_post_cycle(in) ==
    IF in.persona = "missing" THEN [ended |-> "raised", stage |-> "persona", record |-> NoRecord]
    ELSE IF in.persona = "empty"
         THEN [ended |-> "returned", stage |-> "persona", record |-> NoRecord]
    ELSE IF generate_image_result(in.image) = "raised"
         THEN [ended |-> "raised", stage |-> "assets", record |-> NoRecord]
    ELSE [ended |-> "returned", stage |-> "done",
          record |-> [idea |-> generate_idea_result(in.text),
                      image |-> generate_image_result(in.image),
                      caption |-> generate_caption_result(in.text),
                      media_type |-> IF create_motion_clip_result(in.clip) = "clip"
                                     THEN "video" ELSE "image",
                      posted |-> in.auto_post]]

InitOrch ==
    /\ orchCalls = 0
    /\ orchLast = NoCycle
    /\ IdleEngine
    /\ IdleCad
    /\ IdlePlan
    /\ IdleSched
    /\ IdlePub
    /\ IdleEngage
    /\ IdleCycle
    /\ IdleLoad
    /\ IdleTargets
    /\ IdleDays
    /\ IdleText

RunPostCycle(in) ==
    /\ orchCalls < MaxCycles
    /\ orchCalls' = orchCalls + 1
    /\ orchLast' = [called |-> TRUE, in |-> in, out |-> run_post_cycle(in)]
    /\ UNCHANGED <<varsEngine, varsCad, varsPlan, varsSched, varsPub, varsEngage, varsCycle, varsLoad, varsTargets,
                   varsDays, varsText>>

NextOrch == \E in \in CycleInputs : RunPostCycle(in)

SpecOrch == InitOrch /\ [][NextOrch]_vars

\* C17: run_post_cycle raises only for a missing or invalid persona
\* configuration: whatever the text generator, the image generator, the
\* photo search and the publish backend do, a call with a good persona
\* returns a result record.
C17_NeverRaises ==
    (orchLast.called /\ orchLast.in.persona = "ok") => orchLast.out.ended = "returned"

\* C18: the returned record says posted exactly when the publish stage ran
\* and the backend reported success.
C18_PostedReflectsPublish ==
    (orchLast.called /\ orchLast.out.ended = "returned") =>
        (orchLast.out.record.posted
             <=> (orchLast.in.persona = "ok" /\ orchLast.in.auto_post
                      /\ orchLast.in.publish = "success"))

(***************************************************************************)
(* core/publisher.py, core/composer.py and models.py: the stored drafts.   *)
(* A draft's id is its position in drafts; created_at grows with the id.   *)
(***************************************************************************)
NoDraft == 0

\* PostDraft(..., posted=False) as the composer stores it; image tells
\* whether the file at image_path exists.
NewDraft(image) == [posted |-> FALSE, image |-> image]

\* select(PostDraft).where(posted == False).order_by(created_at.desc()).first()
latest_unposted(ds) ==
    IF \E i \in 1..Len(ds) : ~ds[i].posted
    THEN CHOOSE i \in 1..Len(ds) :
             ~ds[i].posted /\ \A j \in 1..Len(ds) : ~ds[j].posted => j <= i
    ELSE NoDraft

\* _get_draft: the draft's id, or NoDraft where it raises ValueError
get_draft(ds, draft_id) ==
    IF draft_id # NoDraft
    THEN (IF draft_id \in 1..Len(ds) THEN draft_id ELSE NoDraft)
    ELSE latest_unposted(ds)

\* A faulty test that takes every answer but an error for a success.
backend_succeeded_or_pending(status) == status \in {"success", "pending"}

\* resp.get("status") == "success"
backend_succeeded(status) == status = "success"

InitPub ==
    /\ drafts = <<>>
    /\ postHistory = <<>>
    /\ pubLast = NoPublish
    /\ IdleEngine
    /\ IdleCad
    /\ IdlePlan
    /\ IdleSched
    /\ IdleOrch
    /\ IdleEngage
    /\ IdleCycle
    /\ IdleLoad
    /\ IdleTargets
    /\ IdleDays
    /\ IdleText

PubFrame == UNCHANGED <<varsEngine, varsCad, varsPlan, varsSched, varsOrch, varsEngage,
                        varsCycle, varsLoad, varsTargets,
                        varsDays, varsText>>

\* create_post_draft / create_realworld_post: session.add(PostDraft(...))
CreateDraft(image) ==
    /\ Len(drafts) < MaxDrafts
    /\ drafts' = Append(drafts, NewDraft(image))
    /\ UNCHANGED <<postHistory, pubLast>>
    /\ PubFrame

\* publish_to_instagram(draft_id): login tells whether ensure_logged_in
\* returned, outcome what post_feed did.
PublishToInstagram(draft_id, login, outcome) ==
    /\ pubLast.n < MaxPublishes
    /\ LET picked == get_draft(drafts, draft_id)
           reached == picked # NoDraft /\ drafts[picked].image /\ login
           ok == reached /\ outcome # "raised" /\ backend_succeeded(outcome)
       IN  /\ drafts' = IF ok THEN [drafts EXCEPT ![picked].posted = TRUE] ELSE drafts
           /\ postHistory' = IF ok THEN Append(postHistory, [draft_id |-> picked])
                             ELSE postHistory
           /\ pubLast' = [called |-> TRUE, n |-> pubLast.n + 1, draft_id |-> draft_id,
                          picked |-> picked, reached |-> reached, outcome |-> outcome,
                          ended |-> IF ~reached \/ outcome = "raised" THEN "raised"
                                    ELSE IF ok THEN "ok" ELSE "not ok"]
    /\ PubFrame

NextPub ==
    \/ \E image \in BOOLEAN : CreateDraft(image)
    \/ \E draft_id \in 0..(MaxDrafts + 1), login \in BOOLEAN, outcome \in PublishOutcomes :
           PublishToInstagram(draft_id, login, outcome)

SpecPub == InitPub /\ [][NextPub]_vars

\* The step is a publish_to_instagram call.
PublishStep == pubLast'.n # pubLast.n
\* The call reached the backend and the backend answered success.
Succeeded == pubLast'.reached /\ pubLast'.outcome = "success"

\* C19 as stated: after a publish call in which the backend did not answer
\* success (error, pending, or an exception), the draft is stored with
\* posted = false and is the draft the most-recent-unpublished query
\* returns.
C19_StillLatestUnpublished ==
    [][(PublishStep /\ pubLast'.reached /\ pubLast'.outcome # "success") =>
           /\ ~drafts'[pubLast'.picked].posted
           /\ latest_unposted(drafts') = pubLast'.picked]_vars

\* C19: a draft's posted flag changes only in a publish call whose backend
\* answered success, which sets the flag of the draft it published and adds
\* one PostHistory row for it; every other publish call (error, pending, an
\* exception, no draft, no image) leaves the drafts and the history as they
\* were, so that a draft picked by the most-recent-unpublished query is
\* picked by it again; and creating a draft changes no stored flag.
C19_FlagOnlyOnSuccess ==
    [][/\ (PublishStep /\ Succeeded) =>
              /\ drafts' = [drafts EXCEPT ![pubLast'.picked].posted = TRUE]
              /\ postHistory' = Append(postHistory, [draft_id |-> pubLast'.picked])
       /\ (PublishStep /\ ~Succeeded) =>
              /\ drafts' = drafts
              /\ postHistory' = postHistory
              /\ (pubLast'.draft_id = 0 /\ pubLast'.picked # 0) =>
                     /\ ~drafts'[pubLast'.picked].posted
                     /\ latest_unposted(drafts') = pubLast'.picked
       /\ ~PublishStep =>
              /\ postHistory' = postHistory
              /\ \A i \in 1..Len(drafts) : drafts'[i] = drafts[i]]_vars

\* After one draft was published, a publish call without a draft id met a
\* pending answer: the draft it picked is stored unpublished and is the
\* latest unpublished draft.
C19_Witness ==
    /\ pubLast.called
    /\ pubLast.draft_id = 0
    /\ pubLast.reached
    /\ pubLast.outcome = "pending"
    /\ Len(postHistory) = 1
    /\ ~drafts[pubLast.picked].posted
    /\ latest_unposted(drafts) = pubLast.picked

\* The PostHistory rows of a draft.
HistoryRows(draft_id) ==
    {k \in 1..Len(postHistory) : postHistory[k].draft_id = draft_id}

\* C39: publish_to_instagram never sends to the backend a draft whose posted
\* flag is already true, whether it was picked by the default query or by
\* its id, and so no draft has more than one PostHistory row.
C39_NeverRepublished ==
    /\ [][(PublishStep /\ pubLast'.reached) => ~drafts[pubLast'.picked].posted]_vars
    /\ [](\A i \in 1..Len(drafts) : Cardinality(HistoryRows(i)) <= 1)

(***************************************************************************)
(* engagement/engagement_engine.py: one engagement cycle.  An entry of the *)
(* history tells the account, the media, the comment text, the outcome and *)
(* the time of the attempt; the clock counts hours.                        *)
(***************************************************************************)
Accounts == {"cafe_a", "mall_b"}
Comments == {"Love the colors here", "This lighting is beautiful"}
MinComments == 3
HighComments == 7
HistoryKeep == 400
RecentTexts == 80

\* Config.ENGAGEMENT_ACCOUNT_COOLDOWN_HOURS, which core/config.py does not
\* define: the four hours of the specification's example.
ENGAGEMENT_ACCOUNT_COOLDOWN_HOURS == 4

\* A media id: the k-th newest post of its owner.
Media(owner, k) == [owner |-> owner, k |-> k]

\* fetch_recent_posts: the recent media of an account, newest first; an
\* account whose fetch fails has none
recent_posts(account, up) ==
    IF account \notin up THEN <<>>
    ELSE IF account = "cafe_a" THEN <<Media(account, 1), Media(account, 2)>>
    ELSE <<Media(account, 1)>>

Entry(account, media, comment, status, timestamp) ==
    [account |-> account, media |-> media, comment |-> comment,
     status |-> status, timestamp |-> timestamp]

\* seq[-n:]
LastOf(seq, n) ==
    IF Len(seq) <= n THEN seq ELSE SubSeq(seq, Len(seq) - n + 1, Len(seq))

\* A faulty _recent_history that keeps every stored entry.
recent_history_untrimmed(file) == file

\* _recent_history: the list the cycle works on
recent_history(file) == LastOf(file, HistoryKeep)

\* _has_commented
has_commented(media, history) ==
    \E i \in 1..Len(history) : history[i].media = media

\* A faulty cooldown test that also holds at the cutoff itself.
account_in_cooldown_inclusive(account, history, now) ==
    \E i \in 1..Len(history) :
        /\ history[i].account = account
        /\ \A j \in (i + 1)..Len(history) : history[j].account # account
        /\ history[i].timestamp >= now - ENGAGEMENT_ACCOUNT_COOLDOWN_HOURS

\* _account_in_cooldown: the latest entry of the account decides
account_in_cooldown(account, history, now) ==
    \E i \in 1..Len(history) :
        /\ history[i].account = account
        /\ \A j \in (i + 1)..Len(history) : history[j].account # account
        /\ history[i].timestamp > now - ENGAGEMENT_ACCOUNT_COOLDOWN_HOURS

\* The first post of the list that has no comment in the history, as a
\* list of at most one media id.
RECURSIVE first_new(_, _)
first_new(posts, history) ==
    IF posts = <<>> THEN <<>>
    ELSE IF has_commented(Head(posts), history) THEN first_new(Tail(posts), history)
    ELSE <<Head(posts)>>

\* _select_candidates
RECURSIVE select_candidates(_, _, _, _, _, _)
select_candidates(targets, history, wanted, up, now, chosen) ==
    IF targets = <<>> \/ Len(chosen) >= wanted THEN chosen
    ELSE LET account == Head(targets)
             found == IF account_in_cooldown(account, history, now) THEN <<>>
                      ELSE first_new(recent_posts(account, up), history)
             next == IF found = <<>> THEN chosen
                     ELSE Append(chosen, [account |-> account, media |-> found[1]])
         IN  select_candidates(Tail(targets), history, wanted, up, now, next)

\* A faulty uniqueness test that reads the whole history.
unique_comment_text_global(history, comment) ==
    \A i \in 1..Len(history) : history[i].comment # comment

\* _unique_comment_text
unique_comment_text(history, comment) ==
    LET recent == LastOf(history, RecentTexts)
    IN  \A i \in 1..Len(recent) : recent[i].comment # comment

\* run_engagement_cycle: the loop over the candidates; every attempt is
\* appended and written at once
RECURSIVE comment_all(_, _, _, _, _)
comment_all(candidates, texts, status, history, now) ==
    IF candidates = <<>> THEN history
    ELSE LET item == Head(candidates)
             after == IF unique_comment_text(history, Head(texts))
                      THEN Append(history,
                                  Entry(item.account, item.media, Head(texts),
                                        status, now))
                      ELSE history
         IN  comment_all(Tail(candidates), Tail(texts), status, after, now)

\* discover_targets: seeds and keyword matches are joined as they come, so
\* an account may occur more than once.
TargetLists == UNION {[1..n -> Accounts] : n \in 0..MaxTargets}

MediaOf(items) == [i \in 1..Len(items) |-> items[i].media]
AccountsOf(items) == [i \in 1..Len(items) |-> items[i].account]

Range(seq) == {seq[i] : i \in 1..Len(seq)}

\* What the platform offers a cycle that ends with room for more comments:
\* the targets whose recent posts hold one that has no comment yet.
offered_accounts(targets, up, history, wanted, candidates) ==
    IF Len(candidates) >= wanted THEN {}
    ELSE {account \in Range(targets) :
             first_new(recent_posts(account, up), history) # <<>>}

InitEngage ==
    /\ engHistory = <<>>
    /\ engNow = 0
    /\ engLast = NoEngagement
    /\ candLast = NoCandidates
    /\ IdleEngine
    /\ IdleCad
    /\ IdlePlan
    /\ IdleSched
    /\ IdleOrch
    /\ IdlePub
    /\ IdleCycle
    /\ IdleLoad
    /\ IdleTargets
    /\ IdleDays
    /\ IdleText

EngageFrame == UNCHANGED <<varsEngine, varsCad, varsPlan, varsSched, varsOrch, varsPub,
                         varsCycle, varsLoad, varsTargets,
                         varsDays, varsText>>

\* run_engagement_cycle
RunEngagementCycle(targets, up, wanted, status) ==
    /\ engLast.n < MaxEngCycles
    /\ LET history == recent_history(engHistory)
           candidates == select_candidates(targets, history, wanted, up, engNow, <<>>)
       IN  \E texts \in [1..Len(candidates) -> Comments] :
               /\ engHistory' = comment_all(candidates, texts, status, history, engNow)
               /\ engLast' = [called |-> TRUE, n |-> engLast.n + 1,
                              candidates |-> MediaOf(candidates),
                              before |-> Len(engHistory)]
    /\ UNCHANGED <<engNow, candLast>>
    /\ EngageFrame

\* Time passes until no entry lies inside the cooldown window.
CooldownPasses ==
    /\ engNow + ENGAGEMENT_ACCOUNT_COOLDOWN_HOURS <= MaxHour
    /\ engHistory # <<>>
    /\ engNow' = engNow + ENGAGEMENT_ACCOUNT_COOLDOWN_HOURS
    /\ UNCHANGED <<engHistory, engLast, candLast>>
    /\ EngageFrame

NextEngage ==
    \/ \E targets \in TargetLists, up \in SUBSET Accounts,
          wanted \in {MinComments, HighComments}, status \in {"success", "error"} :
           RunEngagementCycle(targets, up, wanted, status)
    \/ CooldownPasses

SpecEngage == InitEngage /\ [][NextEngage]_vars

\* C20: the candidates of one engagement cycle have pairwise-distinct
\* media ids, and no two entries of the history share a media id.
C20_NoDoubleComment ==
    /\ Distinct(engLast.candidates)
    /\ \A i, j \in 1..Len(engHistory) :
           i # j => engHistory[i].media # engHistory[j].media

(***************************************************************************)
(* _select_candidates on the history files earlier cycles can leave: up to *)
(* MaxEntries attempts, each one, four or five hours before the call.      *)
(***************************************************************************)
Ages == {1, ENGAGEMENT_ACCOUNT_COOLDOWN_HOURS, ENGAGEMENT_ACCOUNT_COOLDOWN_HOURS + 1}
CallHour == ENGAGEMENT_ACCOUNT_COOLDOWN_HOURS + 1

\* The i-th entry of an earlier history: a comment on a post that is no
\* longer among the recent posts of its account.
EarlierEntry(account, i, status, age) ==
    Entry(account, Media(account, Len(recent_posts(account, Accounts)) + i),
          "Feels like a soft pocket of Shanghai", status, CallHour - age)

EarlierHistories ==
    UNION {{h \in [1..n -> {<<account, status, age>> :
                               account \in Accounts,
                               status \in {"success", "error"}, age \in Ages}] :
               \A i \in 1..(n - 1) : h[i][3] >= h[i + 1][3]} :
           n \in 0..MaxEntries}

InitCooldown ==
    /\ \E h \in EarlierHistories :
           engHistory = [i \in 1..Len(h) |-> EarlierEntry(h[i][1], i, h[i][2], h[i][3])]
    /\ engNow = CallHour
    /\ engLast = NoEngagement
    /\ candLast = NoCandidates
    /\ IdleEngine
    /\ IdleCad
    /\ IdlePlan
    /\ IdleSched
    /\ IdleOrch
    /\ IdlePub
    /\ IdleCycle
    /\ IdleLoad
    /\ IdleTargets
    /\ IdleDays
    /\ IdleText

\* _select_candidates(targets, history, desired), once in a behaviour
SelectCandidates(targets, up, wanted) ==
    /\ ~candLast.called
    /\ LET history == recent_history(engHistory)
           candidates == select_candidates(targets, history, wanted, up, engNow, <<>>)
       IN  candLast' = [called |-> TRUE, accounts |-> AccountsOf(candidates),
                        offered |-> offered_accounts(targets, up, history, wanted,
                                                     candidates)]
    /\ UNCHANGED <<engHistory, engNow, engLast>>
    /\ EngageFrame

NextCooldown ==
    \E targets \in TargetLists, up \in SUBSET Accounts,
       wanted \in {MinComments, HighComments} :
        SelectCandidates(targets, up, wanted)

SpecCooldown == InitCooldown /\ [][NextCooldown]_vars

\* The account's most recent entry, as a set of at most one entry.
LatestEntry(account, history) ==
    LET own == {i \in 1..Len(history) : history[i].account = account}
    IN  {history[i] : i \in {k \in own : \A j \in own : j <= k}}

\* C21: an account is kept out of the candidates exactly when its most
\* recent history entry is later than now minus the cooldown window; an
\* account whose latest entry is older, or that has none, is eligible.
C21_Cooldown ==
    candLast.called =>
        \A account \in Accounts :
            LET cooling ==
                    \E e \in LatestEntry(account, engHistory) :
                        e.timestamp > engNow - ENGAGEMENT_ACCOUNT_COOLDOWN_HOURS
            IN  /\ cooling => account \notin Range(candLast.accounts)
                /\ (~cooling /\ account \in candLast.offered) =>
                       account \in Range(candLast.accounts)

\* C21 witness: with the four-hour window, mall_b was commented one hour
\* before the call and is kept out, cafe_a five hours before and is chosen.
C21_Witness ==
    /\ candLast.called
    /\ candLast.offered = Accounts
    /\ \E e \in LatestEntry("mall_b", engHistory) : e.timestamp = engNow - 1
    /\ \E e \in LatestEntry("cafe_a", engHistory) : e.timestamp = engNow - 5
    /\ candLast.accounts = <<"cafe_a">>

\* C22: an account whose history entries inside the cooldown window all have
\* a status other than success is not in cooldown: when it is offered to the
\* call, it is among the candidates.
C22_OnlySuccessCools ==
    candLast.called =>
        \A account \in Accounts :
            LET inside == {i \in 1..Len(engHistory) :
                              /\ engHistory[i].account = account
                              /\ engHistory[i].timestamp >
                                     engNow - ENGAGEMENT_ACCOUNT_COOLDOWN_HOURS}
            IN  (/\ \A i \in inside : engHistory[i].status # "success"
                 /\ account \in candLast.offered) =>
                    account \in Range(candLast.accounts)

(***************************************************************************)
(* engagement/engagement_engine.py: run_engagement_cycle statement by      *)
(* statement, with the comment backend's answers, the two halves of        *)
(* Path.write_text and the death of the process.  The delays are seconds.  *)
(***************************************************************************)
\* comment_on_media, which poster/instagram_poster.py does not define: the
\* backend returns a result whose status is success or error, or raises.
BackendOutcomes == {"success", "error", "raises"}

\* Config.ENGAGEMENT_MIN_DELAY_SECONDS and _MAX_DELAY_SECONDS, which
\* core/config.py does not define: a range, and a maximum below the minimum.
DelayConfigs == {[min_delay |-> 1, max_delay |-> 2], [min_delay |-> 2, max_delay |-> 1]}

\* max_delay = max(Config.ENGAGEMENT_MAX_DELAY_SECONDS, min_delay + 1)
max_delay(config) ==
    IF config.max_delay > config.min_delay + 1 THEN config.max_delay
    ELSE config.min_delay + 1

\* random.randint(min_delay, max_delay)
delays(config) == config.min_delay..max_delay(config)

\* A faulty loop that goes on to the next candidate without a delay.
after_write_unthrottled(result) == "loop"

\* if not success: continue -- else the delay
after_write(result) == IF result = "success" THEN "sleep" ELSE "loop"

\* post_comment: the result after the first call, "retry" when it raised
after_first_call(outcome) == IF outcome = "raises" THEN "retry" ELSE outcome

\* post_comment: the result after the second call
after_retry(outcome) == IF outcome = "raises" THEN "error" ELSE outcome

\* An entry an earlier cycle left in the file: a comment on a page that is
\* no longer a target.
OldEntry(i, comment) ==
    Entry("old_page", Media("old_page", i), comment, "success", 0)

\* A history file of an earlier time: copies entries with the comment, the
\* oldest ones, and then fillers entries with another text.
OldRun(comment, copies, fillers) ==
    [i \in 1..(copies + fillers) |->
        OldEntry(i, IF i <= copies THEN comment
                    ELSE "Feels like a soft pocket of Shanghai")]

\* The files the cycle starts from: none, a text that is the 80th or the
\* 81st most recent entry, and a text that occurs three times in the last 80.
RecencyHistories ==
    {<<>>} \cup
    {OldRun(c, 1, RecentTexts - 1) : c \in Comments} \cup
    {OldRun(c, 1, RecentTexts) : c \in Comments} \cup
    {OldRun(c, 3, RecentTexts - 3) : c \in Comments}

InitCycle ==
    /\ engHistory \in RecencyHistories
    /\ engNow = 0
    /\ engLast = NoEngagement
    /\ candLast = NoCandidates
    /\ engConfig \in DelayConfigs
    /\ cycPc = "idle"
    /\ cycHistory = <<>>
    /\ cycQueue = <<>>
    /\ cycItem = NoItem
    /\ engDone = Len(engHistory)
    /\ IdleEngine
    /\ IdleCad
    /\ IdlePlan
    /\ IdleSched
    /\ IdleOrch
    /\ IdlePub
    /\ IdleLoad
    /\ IdleTargets
    /\ IdleDays
    /\ IdleText

CycleFrame == UNCHANGED <<varsEngine, varsCad, varsPlan, varsSched, varsOrch, varsPub,
                        varsLoad, varsTargets,
                        varsDays, varsText>>

\* run_engagement_cycle, lines 271-285: load, discover, select; every fetch
\* of recent posts succeeds.  One cycle is followed in a behaviour.
StartCycle(targets, wanted) ==
    /\ cycPc = "idle"
    /\ ~engLast.called
    /\ LET history == recent_history(engHistory)
           candidates == select_candidates(targets, history, wanted, Accounts,
                                           engNow, <<>>)
       IN  /\ engHistory' = history
           /\ engLast' = [called |-> TRUE, n |-> engLast.n + 1,
                          candidates |-> MediaOf(candidates),
                          before |-> Len(engHistory)]
           /\ IF candidates = <<>>
              THEN UNCHANGED <<cycPc, cycHistory, cycQueue>>
              ELSE /\ cycPc' = "loop"
                   /\ cycHistory' = history
                   /\ cycQueue' = candidates
    /\ cycItem' = NoItem
    /\ UNCHANGED <<engNow, candLast, engConfig, engDone>>
    /\ CycleFrame

\* for item in candidates: generate_comment and the uniqueness test
NextCandidate(text) ==
    /\ cycPc = "loop"
    /\ cycQueue # <<>>
    /\ LET item == Head(cycQueue)
           unique == unique_comment_text(cycHistory, text)
       IN  /\ cycItem' = [account |-> item.account, media |-> item.media,
                          comment |-> text, calls |-> 0, first |-> "none",
                          result |-> IF unique THEN "none" ELSE "skipped",
                          prev |-> cycItem.prev, slept |-> cycItem.slept]
           /\ cycPc' = IF unique THEN "first" ELSE "loop"
    /\ cycQueue' = Tail(cycQueue)
    /\ UNCHANGED <<cycHistory, engDone, engConfig, varsEngage>>
    /\ CycleFrame

\* the for loop is exhausted: run_engagement_cycle returns
EndCycle ==
    /\ cycPc = "loop"
    /\ cycQueue = <<>>
    /\ cycPc' = "idle"
    /\ cycHistory' = <<>>
    /\ cycItem' = NoItem
    /\ UNCHANGED <<cycQueue, engDone, engConfig, varsEngage>>
    /\ CycleFrame

\* post_comment: the first comment_on_media call
FirstCall(outcome) ==
    /\ cycPc = "first"
    /\ LET r == after_first_call(outcome)
       IN  /\ cycItem' = [cycItem EXCEPT !.calls = 1, !.first = outcome,
                                         !.result = IF r = "retry" THEN "none" ELSE r]
           /\ cycPc' = IF r = "retry" THEN "retry" ELSE "record"
           /\ engDone' = IF r = "retry" THEN engDone ELSE engDone + 1
    /\ UNCHANGED <<cycHistory, cycQueue, engConfig, varsEngage>>
    /\ CycleFrame

\* post_comment: time.sleep(2) and the second comment_on_media call
Retry(outcome) ==
    /\ cycPc = "retry"
    /\ cycItem' = [cycItem EXCEPT !.calls = 2, !.result = after_retry(outcome)]
    /\ cycPc' = "record"
    /\ engDone' = engDone + 1
    /\ UNCHANGED <<cycHistory, cycQueue, engConfig, varsEngage>>
    /\ CycleFrame

\* history.append(...) and the open(path, "w") of write_text, which empties
\* the file
AppendAndOpen ==
    /\ cycPc = "record"
    /\ cycHistory' = Append(cycHistory,
                            Entry(cycItem.account, cycItem.media, cycItem.comment,
                                  cycItem.result, engNow))
    /\ engHistory' = <<>>
    /\ cycPc' = "writing"
    /\ UNCHANGED <<cycQueue, cycItem, engDone, engConfig, engNow, engLast, candLast>>
    /\ CycleFrame

\* write_text writes the text and closes the file
WriteData ==
    /\ cycPc = "writing"
    /\ engHistory' = cycHistory
    /\ cycPc' = after_write(cycItem.result)
    /\ cycItem' = [cycItem EXCEPT !.prev = cycItem.result, !.slept = 0]
    /\ UNCHANGED <<cycHistory, cycQueue, engDone, engConfig, engNow, engLast, candLast>>
    /\ CycleFrame

\* delay = random.randint(min_delay, max_delay); time.sleep(delay)
Sleep(delay) ==
    /\ cycPc = "sleep"
    /\ delay \in delays(engConfig)
    /\ cycItem' = [cycItem EXCEPT !.slept = delay]
    /\ cycPc' = "loop"
    /\ UNCHANGED <<cycHistory, cycQueue, engDone, engConfig, varsEngage>>
    /\ CycleFrame

\* The process dies in the middle of a cycle; its locals are gone.
Crash ==
    /\ cycPc # "idle"
    /\ cycPc' = "idle"
    /\ cycHistory' = <<>>
    /\ cycQueue' = <<>>
    /\ cycItem' = NoItem
    /\ UNCHANGED <<engDone, engConfig, varsEngage>>
    /\ CycleFrame

\* The steps of a cycle that has started.
CycleSteps ==
    \/ \E text \in Comments : NextCandidate(text)
    \/ EndCycle
    \/ \E outcome \in BackendOutcomes : FirstCall(outcome)
    \/ \E outcome \in BackendOutcomes : Retry(outcome)
    \/ AppendAndOpen
    \/ WriteData
    \/ \E delay \in delays(engConfig) : Sleep(delay)
    \/ Crash

NextCycle ==
    \/ \E targets \in TargetLists, wanted \in {MinComments, HighComments} :
           StartCycle(targets, wanted)
    \/ CycleSteps

SpecCycle == InitCycle /\ [][NextCycle]_vars

\* The step in which the loop takes a candidate and generates its comment.
TakesCandidate == cycPc = "loop" /\ cycQueue # <<>> /\ cycPc' # "idle"

\* The comment texts of the 80 most recent entries of the cycle's history.
RecentComments ==
    {cycHistory[i].comment :
        i \in {j \in 1..Len(cycHistory) : j > Len(cycHistory) - RecentTexts}}

\* C23: a generated comment goes to the backend exactly when its text
\* differs from the comment of each of the 80 most recent history entries,
\* those appended earlier in the same cycle included; a text that occurs
\* only in older entries is accepted.
C23_RecentUnique ==
    [][TakesCandidate =>
          (cycPc' = "first" <=> cycItem'.comment \notin RecentComments)]_vars

\* C23 witness: the comment in hand was accepted although an entry older
\* than the 80 most recent ones has the same text.
C23_Witness ==
    /\ cycPc = "first"
    /\ Len(cycHistory) > RecentTexts
    /\ cycHistory[1].comment = cycItem.comment
    /\ cycItem.prev # "none"

\* C23 witness of the example: the text occurs three times within the last
\* 80 entries and the candidate is skipped.
C23_WitnessRejected ==
    /\ cycPc = "loop"
    /\ cycItem.result = "skipped"
    /\ Len(cycHistory) = RecentTexts
    /\ \A i \in 1..3 : cycHistory[i].comment = cycItem.comment

\* C24: for each candidate the backend is called at most twice; a failed
\* first attempt is retried exactly once; a second failure gives an error
\* result, which is recorded in the history.
C24_RetryOnce ==
    /\ cycItem.calls <= 2
    /\ cycPc \in {"record", "writing"} =>
           /\ cycItem.first # "success" => cycItem.calls = 2
           /\ cycItem.calls = 2 => cycItem.result \in {"success", "error"}
    /\ cycPc = "writing" =>
           cycHistory[Len(cycHistory)].status = cycItem.result

\* C25: at any point the history file holds an entry for every comment
\* attempt that has returned, but for the one in flight, and it holds them
\* all when the next attempt begins.
C25_PersistedPerAttempt ==
    /\ Len(engHistory) + 1 >= engDone
    /\ cycPc \in {"loop", "first", "retry"} => Len(engHistory) >= engDone

\* C26: an attempt that follows a successful one in the same cycle starts
\* only after a delay between min_delay and max_delay has been slept, and
\* after a successful comment is written the cycle does nothing but sleep.
C26_Throttled ==
    /\ (cycPc \in {"first", "retry", "record", "writing"} /\ cycItem.prev = "success") =>
           /\ cycItem.slept >= engConfig.min_delay
           /\ cycItem.slept <= (IF engConfig.max_delay > engConfig.min_delay
                                THEN engConfig.max_delay
                                ELSE engConfig.min_delay + 1)
    /\ (cycPc = "loop" /\ cycItem.prev = "success") => cycItem.slept > 0

\* C26 witness: a second attempt of the cycle is under way after a
\* successful first one and a delay of min_delay + 1 that exceeds the
\* configured maximum.
C26_Witness ==
    /\ cycPc = "first"
    /\ cycItem.prev = "success"
    /\ cycItem.slept = engConfig.min_delay + 1
    /\ engConfig.max_delay < engConfig.min_delay

(***************************************************************************)
(* The loaders of persisted state: VariationState.__init__ / _load,        *)
(* idea_generator._load_scene_memory and engagement_engine._load_json, on  *)
(* a file that is absent, cannot be read or decoded as text, is not JSON,  *)
(* or is JSON whose top level is an object or a list.                      *)
(***************************************************************************)
FileContents == {"absent", "unreadable", "not_json", "object", "list"}

\* What a load ends with: the empty state, the file's content in the shape
\* the caller works with, or content of the other shape handed on as it is.
Loaded(value) == [raised |-> FALSE, value |-> value]
Raised == [raised |-> TRUE, value |-> "none"]

\* VariationState.__init__: _load catches every exception of read_text and
\* json.loads; self._data.setdefault("indexes", {}) follows outside of it.
variation_state_init(content) ==
    CASE content = "absent" -> Loaded("fresh")
      [] content \in {"unreadable", "not_json"} -> Loaded("fresh")
      [] content = "object" -> Loaded("loaded")
      [] content = "list" -> Raised

\* _load_scene_memory: returns whatever json.loads gives
load_scene_memory_from(content) ==
    CASE content = "absent" -> Loaded("fresh")
      [] content \in {"unreadable", "not_json"} -> Loaded("fresh")
      [] content = "object" -> Loaded("loaded")
      [] content = "list" -> Loaded("as_is")

\* _load_json: catches json.JSONDecodeError only
load_json(content) ==
    CASE content = "absent" -> Loaded("fresh")
      [] content = "unreadable" -> Raised
      [] content = "not_json" -> Loaded("fresh")
      [] content = "list" -> Loaded("loaded")
      [] content = "object" -> Loaded("as_is")

load_of(loader, content) ==
    CASE loader = "variation_state" -> variation_state_init(content)
      [] loader = "scene_memory" -> load_scene_memory_from(content)
      [] loader = "engagement_history" -> load_json(content)

InitLoad ==
    /\ stateFiles \in [Loaders -> FileContents]
    /\ loadLast = NoLoad
    /\ IdleEngine
    /\ IdleCad
    /\ IdlePlan
    /\ IdleSched
    /\ IdleOrch
    /\ IdlePub
    /\ IdleEngage
    /\ IdleCycle
    /\ IdleTargets
    /\ IdleDays
    /\ IdleText

LoadFrame ==
    UNCHANGED <<varsEngine, varsCad, varsPlan, varsSched, varsOrch, varsPub,
                varsEngage, varsCycle, varsTargets,
                varsDays, varsText>>

\* One load: VariationState(path), _load_scene_memory() or
\* _load_json(HISTORY_PATH)
Load(loader) ==
    /\ LET r == load_of(loader, stateFiles[loader])
       IN  loadLast' = [called |-> TRUE, loader |-> loader, raised |-> r.raised,
                        value |-> r.value]
    /\ UNCHANGED stateFiles
    /\ LoadFrame

NextLoad == \E loader \in Loaders : Load(loader)

SpecLoad == InitLoad /\ [][NextLoad]_vars

\* The shape the callers of a loader work with.
ExpectedShape(loader) == IF loader = "engagement_history" THEN "list" ELSE "object"

\* C27: loading a state file that cannot be read, is not JSON, or is JSON of
\* the wrong shape yields the empty state and never raises.
C27_FailOpen ==
    (/\ loadLast.called
     /\ stateFiles[loadLast.loader] \notin {"absent", ExpectedShape(loadLast.loader)}) =>
        /\ ~loadLast.raised
        /\ loadLast.value = "fresh"

(***************************************************************************)
(* engagement/engagement_engine.py: discover_targets.  A target tells its  *)
(* category and which identifiers it carries.                              *)
(***************************************************************************)
PriorityOrder ==
    <<"micro_influencer", "lifestyle", "photographer", "cafe", "mall", "discovery">>

\* Categories of the seeds: two of the order and one that is not in it.
SeedCategories == {"micro_influencer", "cafe", "blog"}

Identifiers == {"username", "account_id", "none"}

Target(category, ident) == [category |-> category, ident |-> ident]

\* _priority: order.index(category), len(order) for a category not in it
priority(target) ==
    LET at == {i \in 1..Len(PriorityOrder) : PriorityOrder[i] = target.category}
    IN  IF at = {} THEN Len(PriorityOrder) ELSE (CHOOSE i \in at : TRUE) - 1

\* seed["account_id"] = account_id, when the username resolves
resolve_seed(seed, resolves) ==
    IF seed.ident = "username" /\ resolves THEN Target(seed.category, "both")
    ELSE seed

\* [t for t in seeds + keyword_targets if t.get("username") or t.get("account_id")]
combined_targets(seeds, found) == SelectSeq(seeds \o found, LAMBDA t : t.ident # "none")

\* list.sort(key=_priority): a stable sort
RECURSIVE insert_by_priority(_, _)
insert_by_priority(target, sorted) ==
    IF sorted = <<>> THEN <<target>>
    ELSE IF priority(target) < priority(Head(sorted))
         THEN <<target>> \o sorted
         ELSE <<Head(sorted)>> \o insert_by_priority(target, Tail(sorted))

RECURSIVE sort_by_priority(_)
sort_by_priority(targets) ==
    IF targets = <<>> THEN <<>>
    ELSE LET n == Len(targets)
         IN  insert_by_priority(targets[n], sort_by_priority(SubSeq(targets, 1, n - 1)))

\* The orders random.shuffle can leave a list of n items in.
Shuffles(n) == {p \in [1..n -> 1..n] : \A i, j \in 1..n : i # j => p[i] # p[j]}

\* discover_targets: combine, filter, sort, shuffle
discover_targets(seeds, found, resolves, shuffle) ==
    LET resolved == [i \in 1..Len(seeds) |-> resolve_seed(seeds[i], resolves)]
        sorted == sort_by_priority(combined_targets(resolved, found))
    IN  [i \in 1..Len(sorted) |-> sorted[shuffle[i]]]

SeedLists ==
    UNION {[1..n -> {Target(c, ident) : c \in SeedCategories, ident \in Identifiers}] :
              n \in 0..MaxSeeds}

\* What the keyword searches add: nothing, a page with a name and an id, or
\* an item with neither.
FoundLists ==
    {<<>>, <<Target("discovery", "both")>>, <<Target("discovery", "none")>>}

InitTargets ==
    /\ seedTargets \in SeedLists
    /\ foundTargets \in FoundLists
    /\ targetsLast = NoDiscovery
    /\ IdleEngine
    /\ IdleCad
    /\ IdlePlan
    /\ IdleSched
    /\ IdleOrch
    /\ IdlePub
    /\ IdleEngage
    /\ IdleCycle
    /\ IdleLoad
    /\ IdleDays
    /\ IdleText

\* discover_targets()
DiscoverTargets(resolves, shuffle) ==
    /\ shuffle \in Shuffles(Len(combined_targets(seedTargets, foundTargets)))
    /\ targetsLast' = [called |-> TRUE,
                       result |-> discover_targets(seedTargets, foundTargets,
                                                   resolves, shuffle)]
    /\ UNCHANGED <<seedTargets, foundTargets>>
    /\ UNCHANGED <<varsEngine, varsCad, varsPlan, varsSched, varsOrch, varsPub,
                   varsEngage, varsCycle, varsLoad,
                   varsDays, varsText>>

NextTargets ==
    \E resolves \in BOOLEAN, n \in 0..(MaxSeeds + 1) :
        \E shuffle \in Shuffles(n) : DiscoverTargets(resolves, shuffle)

SpecTargets == InitTargets /\ [][NextTargets]_vars

\* C28: the list discover_targets returns is ordered by the category
\* priority, so no target of lower priority precedes one of higher
\* priority, and holds no entry without username and account id.
C28_PriorityOrder ==
    targetsLast.called =>
        LET r == targetsLast.result
        IN  /\ \A i, j \in 1..Len(r) : i < j => priority(r[i]) <= priority(r[j])
            /\ \A i \in 1..Len(r) : r[i].ident # "none"


(***************************************************************************)
(* The size of the engagement history: files near the 400 entries that     *)
(* _recent_history keeps, and cycles that find more posts than they want.  *)
(***************************************************************************)
FillerText == "Feels like a soft pocket of Shanghai"

\* The history files the earlier cycles of the process leave behind: up to
\* HistoryKeep entries loaded and up to HighComments appended.
LongHistories ==
    {OldRun(FillerText, 0, n) :
        n \in {HistoryKeep - 1, HistoryKeep, HistoryKeep + 1, HistoryKeep + HighComments}}

\* Targets with more uncommented posts than the smaller cycle wants.
HistoryTargets ==
    {<<"cafe_a", "mall_b">>, <<"cafe_a", "cafe_a", "mall_b", "mall_b">>}

InitHistory ==
    /\ engHistory \in LongHistories
    /\ engNow = 0
    /\ engLast = NoEngagement
    /\ candLast = NoCandidates
    /\ engConfig \in DelayConfigs
    /\ cycPc = "idle"
    /\ cycHistory = <<>>
    /\ cycQueue = <<>>
    /\ cycItem = NoItem
    /\ engDone = Len(engHistory)
    /\ IdleEngine
    /\ IdleCad
    /\ IdlePlan
    /\ IdleSched
    /\ IdleOrch
    /\ IdlePub
    /\ IdleLoad
    /\ IdleTargets
    /\ IdleDays
    /\ IdleText

NextHistory ==
    \/ \E targets \in HistoryTargets, wanted \in {MinComments, HighComments} :
           StartCycle(targets, wanted)
    \/ CycleSteps

SpecHistory == InitHistory /\ [][NextHistory]_vars

\* The entries the cycle's list took from the file, and those it added.
LoadedCount == IF engLast.before <= HistoryKeep THEN engLast.before ELSE HistoryKeep
AppendedCount == Len(cycHistory) - LoadedCount

\* C31: the list a cycle loads has at most 400 entries, the newest 400 of
\* the file in the file's order; a cycle appends at most one entry per
\* candidate and at most 7 in all; the file never holds more than 400
\* entries and those the running cycle appended.
C31_HistoryBounded ==
    /\ Len(engHistory) <= HistoryKeep + HighComments
    /\ Len(engLast.candidates) <= HighComments
    /\ \A targets \in HistoryTargets, wanted \in MinComments..HighComments :
          Len(select_candidates(targets, recent_history(engHistory), wanted,
                                Accounts, engNow, <<>>)) <= wanted
    /\ cycPc # "idle" =>
          /\ LoadedCount <= HistoryKeep
          /\ LoadedCount <= Len(cycHistory)
          /\ \A j \in 1..LoadedCount :
                cycHistory[j] = OldEntry(engLast.before - LoadedCount + j, FillerText)
          /\ AppendedCount <= Len(engLast.candidates) - Len(cycQueue)
          /\ AppendedCount <= HighComments
          /\ Len(engHistory) <= HistoryKeep + AppendedCount

\* C31 witness: a cycle that found a file of 407 entries and three posts has
\* loaded the newest 400, appended two and written them.
C31_Witness ==
    /\ cycPc = "loop"
    /\ engLast.before = HistoryKeep + HighComments
    /\ Len(engLast.candidates) = MinComments
    /\ Len(cycHistory) = HistoryKeep + 2
    /\ engHistory = cycHistory
    /\ cycHistory[1] = OldEntry(HighComments + 1, FillerText)

(***************************************************************************)
(* generators/idea_generator.py and generators/captioner.py: the calls of  *)
(* the text generator.  A reply is what one chat completion gives back:    *)
(* an exception (the API's, or _extract_json's on a reply that is not      *)
(* JSON), an idea _too_similar rejects, or an accepted idea with its       *)
(* "location" member.                                                      *)
(***************************************************************************)
TextAttempts == 3
Rejections == {"raises", "similar"}
\* The accepted replies, by their location: the prompt's fields echoed, a
\* name alone, no location, an object that has no name, a deny-listed
\* name, a string; and an echoing reply whose idea is empty.
Acceptances ==
    {"echo", "bare", "no location", "nameless", "banned name", "not an object",
     "empty idea"}

\* What the text generator answers to the calls of one invocation: some
\* rejections of one kind and then an acceptance, or three rejections.
Rejected(kind, n) == [i \in 1..n |-> kind]
ReplyRuns ==
    {Rejected(k, n) \o <<last>> :
        k \in Rejections, n \in 0..(TextAttempts - 1), last \in Acceptances}
    \cup {Rejected(k, TextAttempts - 1) \o <<last>> : k \in Rejections, last \in Rejections}

\* The same for a caption, where every reply that arrives is accepted.
CaptionRuns ==
    {Rejected("raises", n) \o <<"text">> : n \in 0..(TextAttempts - 1)}
    \cup {Rejected("raises", TextAttempts)}

\* for attempt in range(1, 4): the calls made and the reply that broke out
\* of the loop ("none" when no reply did, or the client is missing)
text_attempts(has_client, replies) ==
    IF ~has_client THEN [calls |-> 0, reply |-> "none"]
    ELSE IF replies[Len(replies)] \notin Rejections
         THEN [calls |-> Len(replies), reply |-> replies[Len(replies)]]
         ELSE [calls |-> Len(replies), reply |-> "none"]

\* place.get("name") of a location object that has no name: None, which
\* json.dumps stores as null.
NullName == [words |-> <<"null">>, shout |-> FALSE, pad |-> FALSE]
Unset == "unset"

\* cand_place = data.get("location") or {}
cand_place(reply, arc, mood, beat) ==
    CASE reply \in {"echo", "empty idea"} ->
             [name |-> CleanName, arc |-> arc, arc_mood |-> mood,
              arc_beat |-> beat, source |-> "generator"]
      [] reply = "bare" ->
             [name |-> CleanName, arc |-> Unset, arc_mood |-> Unset,
              arc_beat |-> Unset, source |-> "generator"]
      [] reply = "nameless" ->
             [name |-> NullName, arc |-> Unset, arc_mood |-> Unset,
              arc_beat |-> Unset, source |-> "generator"]
      [] reply = "banned name" ->
             [name |-> Name(<<"yu", "garden">>, TRUE, TRUE), arc |-> arc,
              arc_mood |-> mood, arc_beat |-> beat, source |-> "generator"]
      [] reply = "not an object" ->
             [name |-> Unset, arc |-> Unset, arc_mood |-> Unset,
              arc_beat |-> Unset, source |-> "string"]
      [] OTHER -> NoPlace

\* _fallback_location: a random location and a random mood of the arc, and
\* the arc's first beat
fallback_location(arc, locationAt, moodAt) ==
    [name |-> ArcLocations(arc)[locationAt], arc |-> arc,
     arc_mood |-> ArcMoods(arc)[moodAt], arc_beat |-> ArcBeats(arc)[1],
     source |-> "fallback"]

\* if not place: ...; try: _apply_location_rules(...) except: ...; and the
\* four setdefault calls
settle_place(place, fallback, arc, mood, beat) ==
    LET chosen == IF place = NoPlace THEN fallback
                  ELSE IF place.source = "string" THEN fallback
                  ELSE IF place.name # NullName /\ location_banned(place.name)
                       THEN fallback
                  ELSE place
    IN  [chosen EXCEPT
            !.arc = IF @ = Unset THEN arc ELSE @,
            !.arc_mood = IF @ = Unset THEN mood ELSE @,
            !.arc_beat = IF @ = Unset THEN beat ELSE @]

\* The process starts with or without an API key, and so with or without
\* a client.
InitIdea ==
    /\ scenario \in {[names |-> {CleanName}, locs |-> 2, budget |-> MaxLocCalls,
                      client |-> c] : c \in BOOLEAN}
    /\ InitSceneCommon

\* The idea returned: the text generator's, or f"{beat} near {location}"
generated_idea == [kind |-> "generated", beat |-> "", near |-> NoName]
fallback_idea(beat, location) == [kind |-> "fallback", beat |-> beat, near |-> location]

TextFrame ==
    UNCHANGED <<varsConc, varsCad, varsPlan, varsSched, varsOrch, varsPub,
                varsEngage, varsCycle, varsLoad, varsTargets, varsDays>>

\* generate_idea(persona_name), with the replies of the text generator and
\* the three random.choice draws of the fallbacks.  The call ends in the
\* KeyError of place['name'] when the place has no name, after
\* _update_memory has persisted the beat.
GenerateIdeaText(pick, replies, ideaAt, locationAt, moodAt) ==
    /\ LET e == ensure_arc(load_scene_memory(memFile, today), today, pick)
           beat_index == e.memory.beat_index
           beat == beat_at(e.arc, beat_index)
           mood == mood_at(e.arc, beat_index)
           a == text_attempts(scenario.client, replies)
           generated == a.reply \in (Acceptances \ {"empty idea"})
           place == settle_place(cand_place(a.reply, e.arc, mood, beat),
                                 fallback_location(e.arc, locationAt, moodAt),
                                 e.arc, mood, beat)
       IN  /\ ideaCalls < scenario.budget
           /\ pick \in arc_picks(load_scene_memory(memFile, today), today)
           /\ moodAt \in 1..Len(ArcMoods(e.arc))
           \* a draw that is not made is not an input
           /\ generated => ideaAt = 1
           /\ place.source # "fallback" => (locationAt = 1 /\ moodAt = 1)
           /\ IdeaCall(pick, place.name)
           /\ textLast' =
                  [fn |-> "idea", calls |-> a.calls,
                   accepted |-> a.reply # "none",
                   ended |-> IF place.name = NullName THEN "raised" ELSE "returned",
                   idea |-> IF generated THEN generated_idea
                            ELSE fallback_idea(beat, ArcLocations(e.arc)[ideaAt]),
                   caption |-> "none", place |-> place,
                   arc |-> e.arc, beat_index |-> beat_index]
    /\ TextFrame

\* _mock: the idea, capitalized, and a closing line
mock(idea) == [kind |-> "mock", of |-> idea]

\* generate_caption(persona_name, idea, place), as run_post_cycle calls it
\* with the idea and the place generate_idea returned
GenerateCaption(persona_found, pick, replies) ==
    /\ textLast.fn = "idea" /\ textLast.ended = "returned"
    /\ LET called == persona_found /\ scenario.client
           a == text_attempts(called, replies)
           written == a.reply # "none"
       IN  /\ pick \in arc_picks(load_scene_memory(memFile, today), today)
           /\ ~called => replies = Rejected("raises", TextAttempts)
           /\ IF called THEN SnapshotCall(pick) ELSE UNCHANGED varsEngine
           /\ called => UNCHANGED varsConc
           /\ textLast' =
                  [textLast EXCEPT
                      !.fn = "caption", !.calls = a.calls, !.accepted = written,
                      !.ended = "returned",
                      !.idea = IF written THEN @ ELSE mock(@).of,
                      !.caption = IF written THEN "generated" ELSE mock(@).kind]
    /\ UNCHANGED <<varsCad, varsPlan, varsSched, varsOrch, varsPub,
                   varsEngage, varsCycle, varsLoad, varsTargets, varsDays>>

NextIdea ==
    \/ \E pick \in ArcNames, replies \in ReplyRuns, ideaAt \in 1..scenario.locs,
          locationAt \in 1..scenario.locs, moodAt \in 1..4 :
          GenerateIdeaText(pick, replies, ideaAt, locationAt, moodAt)
    \/ \E persona_found \in BOOLEAN, pick \in ArcNames, replies \in CaptionRuns :
          GenerateCaption(persona_found, pick, replies)

SpecIdea == InitIdea /\ [][NextIdea]_vars

\* C32: the location record generate_idea returns names the active arc, the
\* beat beats[beat_index mod len(beats)] and the mood
\* moods[beat_index mod len(moods)] of the beat_index in force at the call,
\* whether the text generator or the fallback supplied it.
C32_PlaceContext ==
    (textLast.fn = "idea" /\ textLast.ended = "returned") =>
        /\ textLast.place.arc = textLast.arc
        /\ textLast.place.arc_beat = beat_at(textLast.arc, textLast.beat_index)
        /\ textLast.place.arc_mood = mood_at(textLast.arc, textLast.beat_index)

\* C40: generate_idea and generate_caption call the text generator at most
\* three times; when no attempt is accepted the idea is the fallback built
\* from the current beat and a location of the arc, and the caption is the
\* mock built from the idea it was asked for; and neither call raises.
C40_BoundedRetries ==
    [][textLast' # textLast =>
          /\ textLast'.calls <= TextAttempts
          /\ (textLast'.fn = "idea" /\ ~textLast'.accepted) =>
                 \E i \in 1..Len(ArcLocations(textLast'.arc)) :
                     textLast'.idea =
                         fallback_idea(beat_at(textLast'.arc, textLast'.beat_index),
                                       ArcLocations(textLast'.arc)[i])
          /\ (textLast'.fn = "caption" /\ ~textLast'.accepted) =>
                 /\ textLast'.caption = "mock"
                 /\ textLast'.idea = textLast.idea
          /\ textLast'.ended = "returned"]_vars

(***************************************************************************)
(* core/scheduler.py: the scheduler process over calendar days.  Instants  *)
(* are minutes since midnight of day 0, the day the process is started;    *)
(* _random_time_between puts every post job of a plan_day run on the day   *)
(* of the run.                                                             *)
(***************************************************************************)
HoursPerDay == 24
MinutesPerDay == HoursPerDay * MinutesPerHour
CronMinute == 5
LastDay == MaxReplans

day_of(instant) == instant \div MinutesPerDay
minute_of(instant) == instant % MinutesPerDay

\* The minutes of a day the clock is sampled at: midnight, around the
\* re-plan, noon and the last minute.
MinuteSamples ==
    {0, CronMinute - 1, CronMinute, CronMinute + 1,
     (HoursPerDay \div 2) * MinutesPerHour, MinutesPerDay - 1}
Instants == {d * MinutesPerDay + m : d \in 0..LastDay, m \in MinuteSamples}

\* The cron trigger (hour=0, minute=5): its first fire time after an instant
next_fire(instant) ==
    IF minute_of(instant) < CronMinute
    THEN day_of(instant) * MinutesPerDay + CronMinute
    ELSE (day_of(instant) + 1) * MinutesPerDay + CronMinute

\* plan_day: the post jobs it adds, one per chosen window
planned_posts(posts, state, bonus) ==
    Len(choose_windows(decide_post_count(posts, bonus),
                       mood_at(state.arc, state.beat_index),
                       beat_at(state.arc, state.beat_index)))

\* plan_day run at an instant: what the calendar holds afterwards
plan_day(calendar, instant, posts, state, bonus) ==
    [calendar EXCEPT ![day_of(instant)] =
        [plans |-> @.plans + 1,
         posts |-> @.posts + planned_posts(posts, state, bonus)]]

InitDays ==
    /\ schedPc = "starting"
    /\ cronJob = FALSE
    /\ dueJobs = 0
    /\ absorbed = {}
    /\ replans = 0
    /\ schedNow \in MinuteSamples
    /\ cronNext = NoFire
    /\ dayPlans = [d \in 0..LastDay |-> [plans |-> 0, posts |-> 0]]
    /\ recentPosts \in PlanPostLists
    /\ arcState \in PlanArcStates
    /\ cadLast = NoCadence
    /\ IdleEngine
    /\ IdlePlan
    /\ IdleOrch
    /\ IdlePub
    /\ IdleEngage
    /\ IdleCycle
    /\ IdleLoad
    /\ IdleTargets
    /\ IdleText

DaysFrame ==
    UNCHANGED <<varsEngine, varsCad, varsPlan, varsOrch, varsPub, varsEngage,
                varsCycle, varsLoad, varsTargets, varsText>>

\* scheduler.start()
StartScheduler(ok) ==
    /\ schedPc = "starting"
    /\ schedPc' = IF ok THEN "planning" ELSE "returned"
    /\ UNCHANGED <<cronJob, dueJobs, absorbed, replans, varsDays>>
    /\ DaysFrame

\* The plan_day call of start_dynamic_scheduler, made whatever the time is
PlanAtStart(bonus) ==
    /\ schedPc = "planning"
    /\ schedPc' = after_initial_plan(FALSE)
    /\ dayPlans' = plan_day(dayPlans, schedNow, recentPosts, arcState, bonus)
    /\ UNCHANGED <<cronJob, dueJobs, absorbed, replans, schedNow, cronNext>>
    /\ DaysFrame

\* scheduler.add_job(plan_day, "cron", hour=0, minute=5, args=[scheduler])
RegisterDailyPlan(ok) ==
    /\ schedPc = "registering"
    /\ cronJob' = ok
    /\ cronNext' = IF ok THEN next_fire(schedNow) ELSE NoFire
    /\ absorbed' = IF ok THEN absorbed ELSE absorbed \cup {"cron"}
    /\ schedPc' = "looping"
    /\ UNCHANGED <<dueJobs, replans, schedNow, dayPlans>>
    /\ DaysFrame

\* The clock moves on while the main thread sleeps in its loop, up to the
\* next fire time of the daily job.
TimePasses(to) ==
    /\ schedPc = "looping"
    /\ to > schedNow
    /\ cronJob => to <= cronNext
    /\ schedNow' = to
    /\ UNCHANGED <<varsSched, cronNext, dayPlans>>
    /\ DaysFrame

\* The daily job fires: plan_day runs on a worker thread
DailyPlan(bonus) ==
    /\ schedPc = "looping"
    /\ cronJob
    /\ schedNow = cronNext
    /\ replans < MaxReplans
    /\ replans' = replans + 1
    /\ dayPlans' = plan_day(dayPlans, schedNow, recentPosts, arcState, bonus)
    /\ cronNext' = next_fire(schedNow)
    /\ UNCHANGED <<schedPc, cronJob, dueJobs, absorbed, schedNow>>
    /\ DaysFrame

NextDays ==
    \/ \E ok \in BOOLEAN : StartScheduler(ok)
    \/ \E bonus \in BOOLEAN : PlanAtStart(bonus)
    \/ \E ok \in BOOLEAN : RegisterDailyPlan(ok)
    \/ \E to \in Instants : TimePasses(to)
    \/ \E bonus \in BOOLEAN : DailyPlan(bonus)

SpecDays == InitDays /\ [][NextDays]_vars

\* C35: plan_day runs once for every calendar day the process runs on: no
\* day is planned twice, a day whose planning time has passed (start-up
\* for the day of the start, 00:05 for a later day while the daily job is
\* registered) has been planned, and a planned day has 1 or 2 post jobs.
C35_OnePlanPerDay ==
    \A d \in 0..LastDay :
        /\ dayPlans[d].plans <= 1
        /\ dayPlans[d].plans = 1 => dayPlans[d].posts \in {1, 2}
        /\ (d = 0 /\ schedPc \in {"registering", "looping"}) => dayPlans[d].plans = 1
        /\ (d > 0 /\ schedPc = "looping" /\ cronJob
                  /\ schedNow > d * MinutesPerDay + CronMinute)
               => dayPlans[d].plans = 1

(***************************************************************************)
(* engagement/engagement_engine.py: generate_comment and the texts it can  *)
(* return, and engagement cycles that go on for as long as the process     *)
(* runs.                                                                   *)
(***************************************************************************)
base_comments ==
    <<"Love the colors here", "I've walked past this place so many times",
      "This lighting is beautiful", "This cafe looks so peaceful",
      "The textures feel so calm", "Feels like a soft pocket of Shanghai">>

OverlayMoods == {"reflective", "playful", "focused", "hopeful"}
\* The moods a snapshot reports: those with an overlay, and one without.
SnapshotMoods == OverlayMoods \cup {"calm"}

mood_overlays(mood) ==
    CASE mood = "reflective" -> "Something about this looks thoughtful"
      [] mood = "playful" -> "This looks so fun"
      [] mood = "focused" -> "Quiet scene"
      [] mood = "hopeful" -> "Light looks tender here"

\* The hint random.choice(hints) draws from those the caption, the category
\* and the beat of a post add; NoHint when they add none.
Hints == {"this cafe feels gentle", "soft evening light", "the river air"}
NoHint == ""
hint_sentence(hint) == "Love how " \o hint

\* generate_comment: the texts random.choice may return for a context
generate_comment(mood, hint) ==
    {base_comments[i] : i \in 1..Len(base_comments)}
        \cup (IF mood \in OverlayMoods THEN {mood_overlays(mood)} ELSE {})
        \cup (IF hint \in Hints THEN {hint_sentence(hint)} ELSE {})

\* Every text generate_comment can return, in a fixed order.
AllTexts ==
    base_comments
        \o <<mood_overlays("reflective"), mood_overlays("playful"),
             mood_overlays("focused"), mood_overlays("hopeful")>>
        \o <<hint_sentence("this cafe feels gentle"),
             hint_sentence("soft evening light"), hint_sentence("the river air")>>

\* The history after earlier cycles commented with the first n texts, on
\* posts of a page that is no longer a target.
UsedTexts(n) == [i \in 1..n |-> OldEntry(i, AllTexts[i])]

StallTargets == {<<"cafe_a", "mall_b">>, <<"mall_b", "cafe_a">>}

InitStall ==
    /\ engHistory \in {UsedTexts(n) : n \in (Len(AllTexts) - 2)..Len(AllTexts)}
    /\ engNow = 0
    /\ engLast = NoEngagement
    /\ candLast = NoCandidates
    /\ IdleEngine
    /\ IdleCad
    /\ IdlePlan
    /\ IdleSched
    /\ IdleOrch
    /\ IdlePub
    /\ IdleCycle
    /\ IdleLoad
    /\ IdleTargets
    /\ IdleDays
    /\ IdleText

\* The candidates a cycle started now selects.
candidates_now(targets) ==
    select_candidates(targets, recent_history(engHistory), MinComments, Accounts,
                      engNow, <<>>)

\* run_engagement_cycle, one of the cycles the scheduler keeps starting: the
\* mood and the hint are those of the day and of the posts, texts what
\* generate_comment returns for each candidate.
EngagementRound(targets, texts, status) ==
    /\ engHistory' = comment_all(candidates_now(targets), texts, status,
                                 recent_history(engHistory), engNow)
    /\ engLast' = [called |-> TRUE, n |-> Min(engLast.n + 1, MaxEngCycles),
                   candidates |-> MediaOf(candidates_now(targets)),
                   before |-> Len(engHistory)]
    /\ UNCHANGED <<engNow, candLast>>
    /\ EngageFrame

\* The cycles whose first comment is one of the given texts.
Rounds(first) ==
    \E targets \in StallTargets, mood \in SnapshotMoods, hint \in Hints \cup {NoHint},
       status \in {"success", "error"} :
        \E texts \in [1..Len(candidates_now(targets)) -> generate_comment(mood, hint)] :
            /\ texts # <<>> => texts[1] \in first
            /\ EngagementRound(targets, texts, status)

NextStall ==
    \/ Rounds(Range(AllTexts))
    \/ CooldownPasses

\* The texts of the catalog that are not among the recent texts.
UnusedTexts ==
    {t \in Range(AllTexts) : unique_comment_text(recent_history(engHistory), t)}

\* The scheduler keeps starting cycles, and random.choice returns every
\* text of the catalog again and again, among them one the history does not
\* hold, if there is one.
SpecStall ==
    /\ InitStall
    /\ [][NextStall]_vars
    /\ WF_vars(Rounds(Range(AllTexts)))
    /\ WF_vars(Rounds(UnusedTexts))

\* A cycle started now would find a post to comment on.
Available ==
    \E targets \in StallTargets :
        select_candidates(targets, recent_history(engHistory), MinComments,
                          Accounts, engNow, <<>>) # <<>>

\* C36: engagement does not stall: whatever the history holds, if from some
\* time on there always is a post to comment on, then cycles append entries
\* to the history again and again.
C36_NoPermanentStall ==
    (<>[]Available) => []<><<Len(engHistory') > Len(engHistory)>>_vars

====
